---- MODULE Spec2Model ----
(***************************************************************************)
(* A model of mod_ical.c (minfrin/mod_ical): the Apache output filter that *)
(* unfolds a chunked iCalendar stream into logical lines, feeds them to    *)
(* the libical parser, filters the direct children of every completed     *)
(* root component by their end time and writes the result downstream.     *)
(*                                                                         *)
(* Four specifications share the module:                                   *)
(*   FilterSpec  filter_component() run on one completed root component    *)
(*   Spec        ical_out_filter() run on a chunked input stream           *)
(*   WriterSpec  ical_write() run on a root component with one property    *)
(*   QuerySpec   ical_query() run on the query string of a request         *)
(***************************************************************************)
EXTENDS Integers, Sequences, FiniteSets, TLC

(***************************************************************************)
(* Bounds of the model.                                                    *)
(***************************************************************************)
\* longest response body over the whole byte alphabet
MaxLen == 4
\* most content lines of a well-formed (LF separated) response body
MaxLines == 4
\* most places at which the host cuts the body into buckets
MaxCuts == 2
\* most buckets in the brigade of one call
MaxBrigade == 2
\* most direct children of a root component handed to filter_component
MaxKids == 4
\* end instants are 1..MaxTime; 0 is the null time
MaxTime == 4

VARIABLES
    \* ---- the session context (src/mod_ical.c:78-88) and its surroundings
    ctx,         \* ical_ctx: output, filter, format, parser, seen_eol, eat_crlf, tmp, bb
    r,           \* request_rec: the headers and content type the filter reads and sets
    inChain,     \* the filter is still installed in the output filter chain
    pending,     \* buckets the host has not handed over yet
    bb,          \* the brigade argument of the running ical_out_filter call
    pc,          \* "idle" between calls, "loop" inside one, "done", "error"
    rv,          \* the status the last call returned
    downstream,  \* the brigades handed to the next filter, in order
    \* ---- history of a session -----------------------------------------
    stream,      \* every bucket of the response, as the host will hand them over
    lines,       \* the buffers add_line handed to the parser, in order
    roots,       \* indexes (in lines) of the lines for which a root came back
    \* ---- filter_component() locals and argument ------------------------
    comp,        \* the root component handed to filter_component, or NoComp
    iter,        \* icalcompiter iter: id of the child it points at, 0 = NULL
    candidate,   \* id of the current best candidate, 0 = NULL
    now,         \* the reference instant read at entry
    fpc,         \* position inside filter_component
    \* ---- history of a filter_component run -----------------------------
    orig,        \* the root as it was handed in
    removed,     \* sequence of [id, why] in order of removal
    examined,    \* ids bound to scomp by the loop, in order
    \* ---- ical_write() on one component --------------------------------
    wprop,       \* the property of the root component being written, or NoProp
    wkids,       \* the sub-components of that root component, in order
    wout,        \* ctx->output of the session that writes it
    wlog,        \* for each call made to the underlying writer: was it accepted
    wpc,         \* "idle", "writing", "returned", "passed", "failed"
    wrv,         \* what ical_write returned
    wbb,         \* what ical_write added to ctx->bb
    wdown,       \* what ical_out_filter passed to the next filter
    \* ---- ical_query() argument and locals ------------------------------
    conf,        \* the ical_conf of the request's directory, or NoConf
    slider,      \* const char *slider: index into r->args, 0 = NULL
    passes,      \* passes of the while loop made so far
    qpc          \* "idle", "entry", "loop", "returned"

filterVars == <<comp, iter, candidate, now, fpc, orig, removed, examined>>

driverVars == <<ctx, r, inChain, pending, bb, pc, rv, downstream, stream, lines, roots>>

writerVars == <<wprop, wkids, wout, wlog, wpc, wrv, wbb, wdown>>

queryVars == <<conf, slider, passes, qpc>>

(***************************************************************************)
(* Enumerations (src/mod_ical.c:56-76).                                    *)
(***************************************************************************)
AP_ICAL_FILTER_NONE    == "none"
AP_ICAL_FILTER_NEXT    == "next"
AP_ICAL_FILTER_LAST    == "last"
AP_ICAL_FILTER_FUTURE  == "future"
AP_ICAL_FILTER_PAST    == "past"
AP_ICAL_FILTER_UNKNOWN == "unknown"

FilterModes == {AP_ICAL_FILTER_NONE, AP_ICAL_FILTER_NEXT, AP_ICAL_FILTER_LAST,
                AP_ICAL_FILTER_FUTURE, AP_ICAL_FILTER_PAST}

AP_ICAL_FORMAT_NONE    == "none"
AP_ICAL_FORMAT_SPACED  == "spaced"
AP_ICAL_FORMAT_PRETTY  == "pretty"
AP_ICAL_FORMAT_UNKNOWN == "unknown"

AP_ICAL_OUTPUT_NEGOTIATED == "negotiated"
AP_ICAL_OUTPUT_ICAL       == "ical"
AP_ICAL_OUTPUT_XCAL       == "xcal"
AP_ICAL_OUTPUT_JCAL       == "jcal"

APR_SUCCESS  == "APR_SUCCESS"
APR_EGENERAL == "APR_EGENERAL"
APR_ECONNABORTED == "APR_ECONNABORTED"

\* a header, content type or query string that is not there (NULL)
NoHeader == [null |-> TRUE]

DEFAULT_ICAL_FILTER == AP_ICAL_FILTER_NEXT
DEFAULT_ICAL_FORMAT == AP_ICAL_FORMAT_NONE

(***************************************************************************)
(* The component tree as filter_component sees it.  A root holds its own   *)
(* properties and an ordered list of direct children; a child holds its    *)
(* end instant (what icalcomponent_get_dtend returns for it: NullTime when *)
(* it has neither DTEND nor DURATION) and its own contents.                *)
(***************************************************************************)
NullTime == 0
NoComp   == [null |-> TRUE]

Times == 1..MaxTime
Ends  == 0..MaxTime

\* contents of the child with identity i: its properties and sub-components
\* (grandchildren of the root); odd children carry one grandchild
ChildBody(i) ==
    [properties |-> <<"UID", i>>,
     components |-> IF i % 2 = 1 THEN <<[kind |-> "VALARM", owner |-> i]>> ELSE <<>>]

Child(i, e) == [id |-> i, dtend |-> e, body |-> ChildBody(i)]

RootProps == <<"VERSION", "PRODID">>

\* every root with n direct children whose ends are drawn from Ends
RootsOf(n) ==
    { [properties |-> RootProps,
       components |-> [i \in 1..n |-> Child(i, ends[i])]] : ends \in [1..n -> Ends] }

Roots == UNION { RootsOf(n) : n \in 0..MaxKids }

(***************************************************************************)
(* libical primitives used by filter_component, as the library defines     *)
(* them: the iterator is a pointer into the child list, icalcompiter_next  *)
(* first advances it and then returns the child it now points at.          *)
(***************************************************************************)
icaltime_compare(a, b) == IF a > b THEN 1 ELSE IF a < b THEN -1 ELSE 0

IdsOf(list) == { list[k].id : k \in 1..Len(list) }

PosOf(list, id) == CHOOSE k \in 1..Len(list) : list[k].id = id

ChildOf(list, id) == list[PosOf(list, id)]

icalcomponent_get_dtend(list, id) == ChildOf(list, id).dtend

\* pvl_next: the element after the one `id` names, 0 at the tail
pvl_next(list, id) ==
    IF PosOf(list, id) = Len(list) THEN 0 ELSE list[PosOf(list, id) + 1].id

\* icalcomponent_begin_component(comp, ICAL_ANY_COMPONENT): the head, or NULL
icalcomponent_begin_component(list) ==
    IF Len(list) = 0 THEN 0 ELSE list[1].id

\* icalcompiter_next(&iter): the new position (0 once the end is passed);
\* the component returned is the one at the new position
icalcompiter_next(list, it) ==
    IF it = 0 THEN 0 ELSE pvl_next(list, it)

\* icalcomponent_remove_component(comp, child)
icalcomponent_remove_component(list, id) ==
    SelectSeq(list, LAMBDA c : c.id # id)

(***************************************************************************)
(* filter_component (src/mod_ical.c:1783-1886).                            *)
(*                                                                         *)
(* One pass of the switch for the child scomp the iterator points at.      *)
(* The result is the new child list, iterator and candidate, and the       *)
(* children removed by this pass with the test that removed them.          *)
(***************************************************************************)
Kept(list, it, cand) ==
    [components |-> list, iter |-> it, candidate |-> cand, removed |-> <<>>]

\* (variant for C7: the removal also frees the sub-components of the
\* children that stay)
DropScompDeep(list, scomp, cand) ==
    [components |-> [k \in 1..(Len(list) - 1) |->
                        [icalcomponent_remove_component(list, scomp)[k]
                            EXCEPT !.body.components = <<>>]],
     iter       |-> icalcompiter_next(list, scomp),
     candidate  |-> cand,
     removed    |-> <<[id |-> scomp, why |-> "now"]>>]

\* "in the past?" / "in the future?": step past scomp, unlink and free it
DropScomp(list, scomp, cand) ==
    [components |-> icalcomponent_remove_component(list, scomp),
     iter       |-> icalcompiter_next(list, scomp),
     candidate  |-> cand,
     removed    |-> <<[id |-> scomp, why |-> "now"]>>]

\* "better than candidate?": step past scomp, unlink and free the candidate;
\* scomp becomes the candidate
DropCandidate(list, scomp, cand) ==
    [components |-> icalcomponent_remove_component(list, cand),
     iter       |-> icalcompiter_next(list, scomp),
     candidate  |-> scomp,
     removed    |-> <<[id |-> cand, why |-> "candidate"]>>]

CaseNext(list, scomp, cand, nw) ==
    LET end == icalcomponent_get_dtend(list, scomp) IN
    IF icaltime_compare(nw, end) > 0
    THEN DropScomp(list, scomp, cand)
    ELSE IF cand # 0 /\ icaltime_compare(end, icalcomponent_get_dtend(list, cand)) < 0
         THEN DropCandidate(list, scomp, cand)
         ELSE Kept(list, scomp, scomp)

CaseLast(list, scomp, cand, nw) ==
    LET end == icalcomponent_get_dtend(list, scomp) IN
    IF icaltime_compare(nw, end) < 0
    THEN DropScomp(list, scomp, cand)
    ELSE IF cand # 0 /\ icaltime_compare(end, icalcomponent_get_dtend(list, cand)) > 0
         THEN DropCandidate(list, scomp, cand)
         ELSE Kept(list, scomp, scomp)

CaseFuture(list, scomp, cand, nw) ==
    LET end == icalcomponent_get_dtend(list, scomp) IN
    IF icaltime_compare(nw, end) > 0
    THEN DropScomp(list, scomp, cand)
    ELSE Kept(list, scomp, cand)

\* (variant for C5: the test of mode future copied into mode past)
CasePastFlipped(list, scomp, cand, nw) ==
    LET end == icalcomponent_get_dtend(list, scomp) IN
    IF icaltime_compare(nw, end) > 0
    THEN DropScomp(list, scomp, cand)
    ELSE Kept(list, scomp, cand)

CasePast(list, scomp, cand, nw) ==
    LET end == icalcomponent_get_dtend(list, scomp) IN
    IF icaltime_compare(nw, end) < 0
    THEN DropScomp(list, scomp, cand)
    ELSE Kept(list, scomp, cand)

\* (variant for C6: no default label, mode none runs the code of mode past)
CaseDefaultFallsThrough(list, scomp, cand, nw) == CasePast(list, scomp, cand, nw)

\* default: "none, passthrough"
CaseDefault(list, scomp, cand, nw) == Kept(list, scomp, cand)

FilterSwitch(mode, list, scomp, cand, nw) ==
    CASE mode = AP_ICAL_FILTER_NEXT   -> CaseNext(list, scomp, cand, nw)
      [] mode = AP_ICAL_FILTER_LAST   -> CaseLast(list, scomp, cand, nw)
      [] mode = AP_ICAL_FILTER_FUTURE -> CaseFuture(list, scomp, cand, nw)
      [] mode = AP_ICAL_FILTER_PAST   -> CasePast(list, scomp, cand, nw)
      [] OTHER                        -> CaseDefault(list, scomp, cand, nw)

\* ctx->parser before the first call (NULL) and what icalparser_new returns:
\* a parser with no component open
NoParser       == [created |-> FALSE, level |-> 0]
icalparser_new == [created |-> TRUE, level |-> 0]

\* the session context after ical_out_setup: apr_pcalloc zeroes every field
\* (AP_ICAL_FILTER_NONE and AP_ICAL_FORMAT_NONE are the enumerations' zero)
NewCtx(output) ==
    [output |-> output, filter |-> AP_ICAL_FILTER_NONE, format |-> AP_ICAL_FORMAT_NONE,
     parser |-> NoParser, seen_eol |-> FALSE, eat_crlf |-> FALSE,
     tmp |-> <<>>, bb |-> <<>>]

\* no property: ical_write is not running
NoProp == [null |-> TRUE]

\* the state of the session's writer while nothing is being written
WriterIdle ==
    /\ wprop = NoProp
    /\ wkids = <<>>
    /\ wout = AP_ICAL_OUTPUT_ICAL
    /\ wlog = <<>>
    /\ wpc = "idle"
    /\ wrv = APR_SUCCESS
    /\ wbb = <<>>
    /\ wdown = <<>>

NoConf == [null |-> TRUE]

\* ical_query is not running
QueryIdle ==
    /\ conf = NoConf
    /\ slider = 0
    /\ passes = 0
    /\ qpc = "idle"

(***************************************************************************)
(* filter_component as a process: entry, one action per loop pass, return. *)
(***************************************************************************)
FilterInit ==
    /\ \E m \in FilterModes :
           ctx = [NewCtx(AP_ICAL_OUTPUT_ICAL) EXCEPT !.filter = m, !.parser = icalparser_new]
    /\ r = [headers_out_ct |-> NoHeader, content_type |-> NoHeader,
            accept |-> NoHeader, vary |-> <<>>, args |-> NoHeader]
    /\ inChain = TRUE
    /\ pending = <<>>
    /\ bb = <<>>
    /\ pc = "loop"
    /\ rv = APR_SUCCESS
    /\ downstream = <<>>
    /\ stream = <<>>
    /\ lines = <<>>
    /\ roots = <<>>
    /\ comp \in Roots \cup {NoComp}
    /\ now \in Times
    /\ orig = comp
    /\ iter = 0
    /\ candidate = 0
    /\ fpc = "entry"
    /\ removed = <<>>
    /\ examined = <<>>
    /\ WriterIdle
    /\ QueryIdle

\* if (comp) fails: the NULL component is returned as it is
FilterNull ==
    /\ fpc = "entry"
    /\ comp = NoComp
    /\ fpc' = "done"
    /\ UNCHANGED <<queryVars, writerVars, driverVars, comp, iter, candidate, now, orig, removed, examined>>

\* icalcomponent_begin_component and icaltime_current_time_with_zone
FilterEnter ==
    /\ fpc = "entry"
    /\ comp # NoComp
    /\ iter' = icalcomponent_begin_component(comp.components)
    /\ candidate' = 0
    /\ fpc' = "loop"
    /\ UNCHANGED <<queryVars, writerVars, driverVars, comp, now, orig, removed, examined>>

\* while ((scomp = icalcompiter_next(&iter))) ends: return comp
FilterExit ==
    /\ fpc = "loop"
    /\ icalcompiter_next(comp.components, iter) = 0
    /\ iter' = 0
    /\ fpc' = "done"
    /\ UNCHANGED <<queryVars, writerVars, driverVars, comp, candidate, now, orig, removed, examined>>

\* one pass of the loop body for the mode `mode`
FilterPass(mode) ==
    /\ fpc = "loop"
    /\ ctx.filter = mode
    /\ icalcompiter_next(comp.components, iter) # 0
    /\ LET scomp == icalcompiter_next(comp.components, iter)
           res   == FilterSwitch(ctx.filter, comp.components, scomp, candidate, now)
       IN /\ comp' = [comp EXCEPT !.components = res.components]
          /\ iter' = res.iter
          /\ candidate' = res.candidate
          /\ removed' = removed \o res.removed
          /\ examined' = Append(examined, scomp)
    /\ UNCHANGED <<queryVars, writerVars, driverVars, now, fpc, orig>>

PassNext   == FilterPass(AP_ICAL_FILTER_NEXT)
PassLast   == FilterPass(AP_ICAL_FILTER_LAST)
PassFuture == FilterPass(AP_ICAL_FILTER_FUTURE)
PassPast   == FilterPass(AP_ICAL_FILTER_PAST)
PassNone   == FilterPass(AP_ICAL_FILTER_NONE)

FilterNext ==
    \/ FilterNull
    \/ FilterEnter
    \/ PassNext
    \/ PassLast
    \/ PassFuture
    \/ PassPast
    \/ PassNone
    \/ FilterExit

vars == <<driverVars, filterVars, writerVars, queryVars>>

FilterSpec == FilterInit /\ [][FilterNext]_vars

(***************************************************************************)
(* Properties of filter_component, checked under FilterSpec.               *)
(***************************************************************************)
Range(seq) == { seq[k] : k \in 1..Len(seq) }

FilterDone(mode) == fpc = "done" /\ comp # NoComp /\ ctx.filter = mode

\* every direct child of the root handed in has an end time
AllEndsSet == \A c \in Range(orig.components) : c.dtend # NullTime

EndsOf(list) == { list[k].dtend : k \in 1..Len(list) }

MinOf(S) == CHOOSE x \in S : \A y \in S : x <= y
MaxOf(S) == CHOOSE x \in S : \A y \in S : x >= y

\* C2: mode next -- once filter_component has run, every child whose end is
\* strictly before now is gone, and of the others exactly one is left, one
\* with the earliest end.
C2_NextKeepsEarliest ==
    (FilterDone(AP_ICAL_FILTER_NEXT) /\ AllEndsSet) =>
        LET rest == { e \in EndsOf(orig.components) : e >= now } IN
        /\ \A c \in Range(comp.components) : c.dtend >= now
        /\ IF rest = {} THEN comp.components = <<>>
           ELSE /\ Len(comp.components) = 1
                /\ comp.components[1].dtend = MinOf(rest)

\* C3: mode last -- once filter_component has run, every child whose end is
\* strictly after now is gone, and of the others exactly one is left, one
\* with the latest end.
C3_LastKeepsLatest ==
    (FilterDone(AP_ICAL_FILTER_LAST) /\ AllEndsSet) =>
        LET rest == { e \in EndsOf(orig.components) : e <= now } IN
        /\ \A c \in Range(comp.components) : c.dtend <= now
        /\ IF rest = {} THEN comp.components = <<>>
           ELSE /\ Len(comp.components) = 1
                /\ comp.components[1].dtend = MaxOf(rest)

\* C4: modes future and past are non-selective -- future leaves exactly the
\* children whose end is not before now, past exactly those whose end is
\* not after now, in their order.
C4_FuturePastNonSelective ==
    /\ (FilterDone(AP_ICAL_FILTER_FUTURE) /\ AllEndsSet) =>
           comp.components = SelectSeq(orig.components, LAMBDA c : c.dtend >= now)
    /\ (FilterDone(AP_ICAL_FILTER_PAST) /\ AllEndsSet) =>
           comp.components = SelectSeq(orig.components, LAMBDA c : c.dtend <= now)

\* the removals made by the comparison with now
DroppedByNow == { removed[k].id : k \in { j \in 1..Len(removed) : removed[j].why = "now" } }

HasNullEnd(id) == icalcomponent_get_dtend(orig.components, id) = NullTime

\* C5 (as stated): in no mode is a child without an end time removed by the
\* comparison with now.
C5_NullEndAlwaysQualifies ==
    comp # NoComp => \A id \in DroppedByNow : ~HasNullEnd(id)

\* C5 (amended): a child without an end time is never removed by the
\* comparison with now in the modes last, past and none; in the modes next
\* and future the null end compares as before now, and every such child the
\* loop examines is removed by that comparison.
C5_NullEndComparesOldest ==
    comp # NoComp =>
        /\ ctx.filter \in {AP_ICAL_FILTER_LAST, AP_ICAL_FILTER_PAST, AP_ICAL_FILTER_NONE} =>
               \A id \in DroppedByNow : ~HasNullEnd(id)
        /\ ctx.filter \in {AP_ICAL_FILTER_NEXT, AP_ICAL_FILTER_FUTURE} =>
               \A id \in Range(examined) : HasNullEnd(id) => id \in DroppedByNow

\* a child without an end time was examined in mode past and is still there,
\* while another child was removed by the comparison with now
C5_Witness ==
    /\ FilterDone(AP_ICAL_FILTER_PAST)
    /\ DroppedByNow # {}
    /\ \E id \in Range(examined) : HasNullEnd(id) /\ id \in IdsOf(comp.components)

\* C6: mode none is the identity -- the root and its list of direct children
\* stay as they were handed in, throughout the run and at its end.
C6_NoneIsIdentity ==
    ctx.filter = AP_ICAL_FILTER_NONE => comp = orig

\* a run in mode none has examined children whose ends lie on both sides of now
C6_Witness ==
    /\ FilterDone(AP_ICAL_FILTER_NONE)
    /\ \E a, b \in Range(examined) :
           /\ icalcomponent_get_dtend(orig.components, a) < now
           /\ icalcomponent_get_dtend(orig.components, b) > now

\* C7: in every mode only direct children of the root are removed -- the
\* root's properties stay, the children left are the original ones with
\* their contents untouched, in their original order.
C7_OnlyDirectChildrenRemoved ==
    comp # NoComp =>
        /\ comp.properties = orig.properties
        /\ \A c \in Range(comp.components) : c \in Range(orig.components)
        /\ comp.components =
               SelectSeq(orig.components, LAMBDA c : c.id \in IdsOf(comp.components))

\* a run has removed a child and kept one that has sub-components of its own
C7_Witness ==
    /\ fpc = "done" /\ comp # NoComp
    /\ removed # <<>>
    /\ \E c \in Range(comp.components) : c.body.components # <<>>

(***************************************************************************)
(* The response body and the buckets that carry it.                        *)
(***************************************************************************)
APR_ASCII_CR    == "CR"
APR_ASCII_LF    == "LF"
APR_ASCII_BLANK == "SP"
APR_ASCII_TAB   == "TAB"

\* a content line is named by its first byte: B stands for the text of a
\* BEGIN line, E for that of an END line, x for any other text
Letters == {"B", "E", "x"}
Bytes   == {APR_ASCII_CR, APR_ASCII_LF, APR_ASCII_BLANK, APR_ASCII_TAB} \cup Letters

DataBucket(d) == [kind |-> "data", data |-> d]
EosBucket     == [kind |-> "eos", data |-> <<>>]
MetaBucket    == [kind |-> "meta", data |-> <<>>]
DocBucket(n, out) == [kind |-> "doc", data |-> <<n, out>>]

SeqsUpTo(S, n) == UNION { [1..k -> S] : k \in 0..n }

RECURSIVE JoinLines(_)
JoinLines(ls) ==
    IF Len(ls) = 0 THEN <<>>
    ELSE IF Len(ls) = 1 THEN <<ls[1]>>
    ELSE <<ls[1], APR_ASCII_LF>> \o JoinLines(Tail(ls))

\* bodies of line breaks, fold markers and text in any order, and longer
\* bodies of LF separated BEGIN, END and other lines
ByteInputs     == SeqsUpTo(Bytes \ {"B", "E"}, MaxLen)
CalendarInputs == { JoinLines(ls) : ls \in SeqsUpTo(Letters, MaxLines) }

\* a logical line folded at the places P: the line break brk and the
\* whitespace byte blank go in after the bytes at P
RECURSIVE Fold(_, _, _, _, _)
Fold(line, P, brk, blank, i) ==
    IF i > Len(line) THEN <<>>
    ELSE <<line[i]>> \o (IF i \in P THEN brk \o <<blank>> ELSE <<>>)
                    \o Fold(line, P, brk, blank, i + 1)

\* the logical lines that are folded, and the ways to fold them
FoldLines  == { <<"x", "E">>, <<"x", "E", "B">> }
LineBreaks == { <<APR_ASCII_LF>>, <<APR_ASCII_CR, APR_ASCII_LF>> }
Blanks     == { APR_ASCII_BLANK, APR_ASCII_TAB }
Foldings ==
    UNION { { [line |-> l, body |-> Fold(l, P, brk, blank, 1)] :
                P \in (SUBSET (1..(Len(l) - 1))) \ {{}}, brk \in LineBreaks, blank \in Blanks } :
            l \in FoldLines }
FoldedInputs == { f.body : f \in Foldings }

Inputs         == ByteInputs \cup CalendarInputs \cup FoldedInputs

\* the places where the host may cut a body of n bytes
CutSets(n) == { S \in SUBSET (1..(n - 1)) : Cardinality(S) <= MaxCuts }

SortedSeq(S) ==
    CHOOSE f \in [1..Cardinality(S) -> S] : \A i, j \in 1..Cardinality(S) : i < j => f[i] < f[j]

\* the data buckets of body inp cut at the places S: none is empty
Chunks(inp, S) ==
    LET c == SortedSeq(S \cup {0, Len(inp)}) IN
    [i \in 1..(Len(c) - 1) |-> DataBucket(SubSeq(inp, c[i] + 1, c[i + 1]))]

\* the response as a brigade stream: the data buckets, a metadata (flush)
\* bucket after the first of them when meta is set, and the EOS bucket last
Stream(inp, S, meta) ==
    LET d == Chunks(inp, S) IN
    (IF meta /\ Len(d) > 0 THEN <<d[1], MetaBucket>> \o Tail(d) ELSE d) \o <<EosBucket>>

RECURSIVE DataOf(_)
DataOf(buckets) ==
    IF buckets = <<>> THEN <<>>
    ELSE (IF buckets[1].kind = "data" THEN buckets[1].data ELSE <<>>) \o DataOf(Tail(buckets))

(***************************************************************************)
(* The unfolding part of one pass of the while loop of ical_out_filter     *)
(* (src/mod_ical.c:2189-2260) for the data bucket e at the head of the     *)
(* brigade: what becomes of the pending line, the two flags and the        *)
(* bucket, and the buffer handed to add_line if the pass handles a line.   *)
(***************************************************************************)
IsEol(b)   == b = APR_ASCII_CR \/ b = APR_ASCII_LF
IsBlank(b) == b = APR_ASCII_BLANK \/ b = APR_ASCII_TAB

\* which branch a pass takes
IterKind(c, e) ==
    IF e.kind = "eos" THEN "eos"
    ELSE IF e.kind = "meta" THEN "meta"
    ELSE IF Len(e.data) = 0 THEN "empty"
    ELSE IF c.eat_crlf /\ IsEol(e.data[1]) THEN "eat"
    ELSE IF c.seen_eol /\ IsBlank(e.data[1]) THEN "fold"
    ELSE IF c.seen_eol /\ c.tmp # <<>> THEN "line"
    ELSE "scan"

\* memchr for CR and for LF, the smaller of the two: 0 when there is neither
EolPos(data) ==
    IF \E k \in 1..Len(data) : IsEol(data[k])
    THEN CHOOSE k \in 1..Len(data) :
             IsEol(data[k]) /\ \A j \in 1..(k - 1) : ~IsEol(data[j])
    ELSE 0

\* apr_bucket_split(e, 1); apr_bucket_delete(e): the rest stays, even if empty
DropFirst(e) == <<DataBucket(Tail(e.data))>>

\* "end of line?": the bytes before the line break are moved to ctx->tmp and
\* the rest stays in the brigade; a bucket that starts with the line break
\* is not split and is moved to ctx->tmp whole
Scan(c, e) ==
    LET pos == EolPos(e.data) IN
    IF pos = 0
    THEN [tmp |-> c.tmp \o e.data, rest |-> <<>>,
          eat_crlf |-> FALSE, seen_eol |-> FALSE, line |-> <<>>]
    ELSE IF pos # 1
    THEN [tmp |-> c.tmp \o SubSeq(e.data, 1, pos - 1),
          rest |-> <<DataBucket(SubSeq(e.data, pos, Len(e.data)))>>,
          eat_crlf |-> TRUE, seen_eol |-> TRUE, line |-> <<>>]
    ELSE [tmp |-> c.tmp \o e.data, rest |-> <<>>,
          eat_crlf |-> TRUE, seen_eol |-> TRUE, line |-> <<>>]

Unfolded(c, e) ==
    CASE IterKind(c, e) = "empty" ->
             [tmp |-> c.tmp, rest |-> <<>>,
              eat_crlf |-> c.eat_crlf, seen_eol |-> c.seen_eol, line |-> <<>>]
      [] IterKind(c, e) = "eat" ->
             [tmp |-> c.tmp, rest |-> DropFirst(e),
              eat_crlf |-> TRUE, seen_eol |-> c.seen_eol, line |-> <<>>]
      [] IterKind(c, e) = "fold" ->
             [tmp |-> c.tmp, rest |-> DropFirst(e),
              eat_crlf |-> FALSE, seen_eol |-> FALSE, line |-> <<>>]
      [] IterKind(c, e) = "line" ->
             [tmp |-> <<>>, rest |-> <<e>>,
              eat_crlf |-> FALSE, seen_eol |-> FALSE, line |-> <<c.tmp>>]
      [] IterKind(c, e) = "scan" -> Scan(c, e)

(***************************************************************************)
(* add_line (src/mod_ical.c:1888-1915) hands the flattened ctx->tmp to     *)
(* icalparser_add_line.  The parser keeps the stack of open components:    *)
(* a BEGIN line opens one, an END line closes one, and the root comes back *)
(* when the outermost open component is closed.                            *)
(***************************************************************************)
LineKind(buffer) ==
    IF buffer = <<>> THEN "other"
    ELSE IF buffer[1] = "B" THEN "begin"
    ELSE IF buffer[1] = "E" THEN "end"
    ELSE "other"

icalparser_add_line(parser, buffer) ==
    CASE LineKind(buffer) = "begin" ->
             [parser |-> [parser EXCEPT !.level = @ + 1], comp |-> FALSE]
      [] LineKind(buffer) = "end" /\ parser.level > 0 ->
             [parser |-> [parser EXCEPT !.level = @ - 1], comp |-> parser.level = 1]
      [] OTHER ->
             [parser |-> parser, comp |-> FALSE]

\* (variant for C9: every line goes to a parser of its own)
add_line_new_parser(c) ==
    LET res == icalparser_add_line(icalparser_new, c.tmp) IN
    [ctx |-> [c EXCEPT !.tmp = <<>>, !.parser = res.parser],
     buffer |-> c.tmp, comp |-> res.comp]

\* (variant for C17: ctx->tmp is cleaned up before it is flattened)
add_line_cleanup_first(c) ==
    LET res == icalparser_add_line(c.parser, <<>>) IN
    [ctx |-> [c EXCEPT !.tmp = <<>>, !.parser = res.parser],
     buffer |-> <<>>, comp |-> res.comp]

\* add_line: the buffer is ctx->tmp, which is cleaned up
add_line(c) ==
    LET res == icalparser_add_line(c.parser, c.tmp) IN
    [ctx |-> [c EXCEPT !.tmp = <<>>, !.parser = res.parser],
     buffer |-> c.tmp, comp |-> res.comp]

(***************************************************************************)
(* The request: header values are a media type, written in lower or upper  *)
(* case, with or without parameters after it.                              *)
(***************************************************************************)
Header(media, upper, params) == [media |-> media, upper |-> upper, params |-> params]

Plain(media) == Header(media, FALSE, FALSE)

\* ap_field_noparam: the value up to the first ';', NULL for NULL
ap_field_noparam(h) == IF h = NoHeader THEN NoHeader ELSE [h EXCEPT !.params = FALSE]

\* strcasecmp(h, literal) == 0, for a lower-case literal without parameters
strcasecmp_eq(h, literal) == h.media = literal /\ ~h.params

\* strcmp(h, literal) == 0
strcmp_eq(h, literal) == h.media = literal /\ ~h.params /\ ~h.upper

ContentTypes ==
    {NoHeader, Plain("text/calendar"), Header("text/calendar", TRUE, TRUE),
     Plain("text/html"), Plain("application/calendar+xml")}

Accepts ==
    {NoHeader, Plain("text/calendar"), Plain("application/calendar+xml"),
     Plain("application/calendar+json"), Plain("text/html"),
     Header("application/calendar+json", FALSE, TRUE)}

\* the four registrations and the output their setup function selects
\* (src/mod_ical.c:2030-2068, 2331-2338)
SetupOutput ==
    [ICAL     |-> AP_ICAL_OUTPUT_NEGOTIATED,
     ICALICAL |-> AP_ICAL_OUTPUT_ICAL,
     ICALXCAL |-> AP_ICAL_OUTPUT_XCAL,
     ICALJCAL |-> AP_ICAL_OUTPUT_JCAL]

\* (variant for C13: the default the ICalFilter help text announces)
create_ical_config_past == [filter |-> AP_ICAL_FILTER_PAST, format |-> DEFAULT_ICAL_FORMAT]

\* create_ical_config
create_ical_config == [filter |-> DEFAULT_ICAL_FILTER, format |-> DEFAULT_ICAL_FORMAT]

\* (variant for C10: only a missing Content-Type disables the filter)
DisabledWhenMissing(c, req) ==
    /\ c.output = AP_ICAL_OUTPUT_NEGOTIATED
    /\ ap_field_noparam(req.headers_out_ct) = NoHeader

\* "sanity check - input must be text/calendar or fail"
Disabled(c, req) ==
    /\ c.output = AP_ICAL_OUTPUT_NEGOTIATED
    /\ LET ct == ap_field_noparam(req.headers_out_ct) IN
       IF ct = NoHeader THEN TRUE ELSE ~strcasecmp_eq(ct, "text/calendar")

\* (variant for C11: no branch for application/calendar+json)
NegotiatedWithoutJson(output, accept) ==
    IF output # AP_ICAL_OUTPUT_NEGOTIATED THEN output
    ELSE IF accept = NoHeader THEN AP_ICAL_OUTPUT_ICAL
    ELSE IF strcmp_eq(accept, "text/calendar") THEN AP_ICAL_OUTPUT_ICAL
    ELSE IF strcmp_eq(accept, "application/calendar+xml") THEN AP_ICAL_OUTPUT_XCAL
    ELSE AP_ICAL_OUTPUT_ICAL

\* "must we negotiate the output format?"
Negotiated(output, accept) ==
    IF output # AP_ICAL_OUTPUT_NEGOTIATED THEN output
    ELSE IF accept = NoHeader THEN AP_ICAL_OUTPUT_ICAL
    ELSE IF strcmp_eq(accept, "text/calendar") THEN AP_ICAL_OUTPUT_ICAL
    ELSE IF strcmp_eq(accept, "application/calendar+xml") THEN AP_ICAL_OUTPUT_XCAL
    ELSE IF strcmp_eq(accept, "application/calendar+json") THEN AP_ICAL_OUTPUT_JCAL
    ELSE AP_ICAL_OUTPUT_ICAL

\* apr_table_merge(r->headers_out, "Vary", "Accept")
apr_table_merge(old, value) == Append(old, value)

\* ical_query: the configured modes; the requests of this model carry no
\* query string (r->args is NULL), so the while loop is not entered
ical_query(c, config, args) ==
    [c EXCEPT !.filter = config.filter, !.format = config.format]

\* ical_header: ap_set_content_type for the XML and JSON outputs only
ical_header(output, content_type) ==
    CASE output = AP_ICAL_OUTPUT_XCAL -> Plain("application/calendar+xml")
      [] output = AP_ICAL_OUTPUT_JCAL -> Plain("application/calendar+json")
      [] OTHER -> content_type

\* the first-time-in block of ical_out_filter once the sanity check passed
FirstTimeIn(c, req) ==
    LET out == Negotiated(c.output, req.accept) IN
    [ctx |-> ical_query([c EXCEPT !.bb = <<>>, !.tmp = <<>>,
                                   !.parser = icalparser_new, !.output = out],
                        create_ical_config, req.args),
     r   |-> [req EXCEPT
                !.vary = IF c.output = AP_ICAL_OUTPUT_NEGOTIATED
                         THEN apr_table_merge(req.vary, "Accept") ELSE @,
                !.content_type = ical_header(out, @)]]

\* what ical_write may return: ical_to_ical only appends to the brigade, the
\* XML and JSON writers may fail
WriteResults(output) ==
    IF output = AP_ICAL_OUTPUT_ICAL THEN {APR_SUCCESS} ELSE {APR_SUCCESS, APR_EGENERAL}

\* what ap_pass_brigade may return: the next filter takes the brigade, and
\* reports an error when the connection is gone
PassResults == {APR_SUCCESS, APR_ECONNABORTED}

\* (variant for C8: the document stays in ctx->bb until the EOS bucket)
WriteAndKeep(c, doc) ==
    [passed |-> <<>>, bb |-> Append(c.bb, doc)]

\* rv = ical_write(f, comp) succeeded: the document is appended to ctx->bb
\* and ctx->bb is passed down the chain at once (src/mod_ical.c:2223-2230)
WriteAndPass(c, doc) ==
    [passed |-> <<Append(c.bb, doc)>>, bb |-> <<>>]

\* (variant for C27: the rest of the incoming brigade is put in front of the
\* buffered output)
BRIGADE_PREPEND(a, b) == b \o a

\* "pass the EOS across": APR_BRIGADE_CONCAT(ctx->bb, bb) moves the buckets
\* of b, the EOS bucket first of them, to the end of a
APR_BRIGADE_CONCAT(a, b) == a \o b

\* bodies for which every registration and header combination is explored
RequestInputs == { <<>>, JoinLines(<<"B", "E">>), JoinLines(<<"B", "E", "x">>) }

DefaultRequest ==
    [headers_out_ct |-> Plain("text/calendar"), content_type |-> Plain("text/calendar"),
     accept |-> NoHeader, vary |-> <<>>, args |-> NoHeader]

Init ==
    /\ \E inp \in Inputs : \E S \in CutSets(Len(inp)), meta \in BOOLEAN :
           /\ meta => inp \in CalendarInputs /\ Cardinality(S) = 1
           /\ stream = Stream(inp, S, meta)
           /\ \/ /\ ctx = NewCtx(AP_ICAL_OUTPUT_NEGOTIATED)
                 /\ r = DefaultRequest
              \/ /\ inp \in RequestInputs
                 /\ \E reg \in DOMAIN SetupOutput, ct \in ContentTypes, acc \in Accepts :
                        /\ ctx = NewCtx(SetupOutput[reg])
                        /\ r = [DefaultRequest EXCEPT !.headers_out_ct = ct,
                                                      !.content_type = ct, !.accept = acc]
    /\ pending = stream
    /\ inChain = TRUE
    /\ bb = <<>>
    /\ pc = "idle"
    /\ rv = APR_SUCCESS
    /\ downstream = <<>>
    /\ lines = <<>>
    /\ roots = <<>>
    /\ comp = NoComp
    /\ now = 1
    /\ orig = NoComp
    /\ iter = 0
    /\ candidate = 0
    /\ fpc = "idle"
    /\ removed = <<>>
    /\ examined = <<>>
    /\ WriterIdle
    /\ QueryIdle

(***************************************************************************)
(* ical_out_filter (src/mod_ical.c:2070-2265): the host calls it with the  *)
(* next brigade, the while loop takes one bucket per pass.                 *)
(***************************************************************************)
\* the host hands over the next n buckets as the brigade of a call
Handover(n) ==
    /\ pc = "idle"
    /\ n \in 1..Len(pending) /\ n <= MaxBrigade
    /\ pending' = SubSeq(pending, n + 1, Len(pending))

\* first call, unexpected content type: the filter removes itself and passes
\* the brigade on as it came
CallDisabled ==
    /\ inChain /\ ~ctx.parser.created /\ Disabled(ctx, r)
    /\ \E n \in 1..Len(pending), res \in PassResults :
           /\ Handover(n)
           /\ downstream' = Append(downstream, SubSeq(pending, 1, n))
           /\ rv' = res
           /\ pc' = IF res = APR_SUCCESS THEN "idle" ELSE "error"
    /\ inChain' = FALSE
    /\ UNCHANGED <<ctx, r, bb, stream, lines, roots, filterVars, writerVars, queryVars>>

\* first call: parser, brigades, output format, modes and header
CallFirst ==
    /\ inChain /\ ~ctx.parser.created /\ ~Disabled(ctx, r)
    /\ \E n \in 1..Len(pending) : Handover(n) /\ bb' = SubSeq(pending, 1, n)
    /\ ctx' = FirstTimeIn(ctx, r).ctx
    /\ r' = FirstTimeIn(ctx, r).r
    /\ pc' = "loop"
    /\ UNCHANGED <<inChain, rv, downstream, stream, lines, roots, filterVars, writerVars, queryVars>>

\* a later call
CallAgain ==
    /\ inChain /\ ctx.parser.created
    /\ \E n \in 1..Len(pending) : Handover(n) /\ bb' = SubSeq(pending, 1, n)
    /\ pc' = "loop"
    /\ UNCHANGED <<ctx, r, inChain, rv, downstream, stream, lines, roots, filterVars, writerVars, queryVars>>

\* the filter is gone from the chain: the host's brigades reach the next
\* filter directly
Bypass ==
    /\ ~inChain
    /\ \E n \in 1..Len(pending) :
           /\ Handover(n)
           /\ downstream' = Append(downstream, SubSeq(pending, 1, n))
    /\ pc' = "idle"
    /\ UNCHANGED <<ctx, r, inChain, bb, rv, stream, lines, roots, filterVars, writerVars, queryVars>>

InLoop(kind) == pc = "loop" /\ bb # <<>> /\ IterKind(ctx, bb[1]) = kind

\* a pass that only moves bytes: the unfolder's part alone
Unfold(kind) ==
    /\ InLoop(kind)
    /\ LET u == Unfolded(ctx, bb[1]) IN
       /\ ctx' = [ctx EXCEPT !.tmp = u.tmp, !.eat_crlf = u.eat_crlf, !.seen_eol = u.seen_eol]
       /\ bb' = u.rest \o Tail(bb)
    /\ UNCHANGED <<r, inChain, pending, pc, rv, downstream, stream, lines, roots, filterVars, writerVars, queryVars>>

DeleteEmpty  == Unfold("empty")
EatCrlf      == Unfold("eat")
Continuation == Unfold("fold")
BufferData   == Unfold("scan")

\* "metadata buckets are preserved as is"
KeepMetadata ==
    /\ InLoop("meta")
    /\ ctx' = [ctx EXCEPT !.bb = Append(@, bb[1])]
    /\ bb' = Tail(bb)
    /\ UNCHANGED <<r, inChain, pending, pc, rv, downstream, stream, lines, roots, filterVars, writerVars, queryVars>>

\* "process the line": add_line, and for a completed root ical_write and
\* ap_pass_brigade; an error of either ends the call
ProcessLine ==
    /\ InLoop("line")
    /\ LET u == Unfolded(ctx, bb[1])
           a == add_line(ctx)
           c == [a.ctx EXCEPT !.eat_crlf = u.eat_crlf, !.seen_eol = u.seen_eol]
           n == Len(lines) + 1
       IN /\ lines' = Append(lines, a.buffer)
          /\ bb' = u.rest \o Tail(bb)
          /\ IF ~a.comp
             THEN /\ ctx' = c
                  /\ UNCHANGED <<roots, downstream, rv, pc>>
             ELSE /\ roots' = Append(roots, n)
                  /\ \E w \in WriteResults(c.output) :
                         IF w # APR_SUCCESS
                         THEN /\ ctx' = c
                              /\ rv' = w
                              /\ pc' = "error"
                              /\ UNCHANGED downstream
                         ELSE \E res \in PassResults :
                                  /\ downstream' =
                                         downstream \o WriteAndPass(c, DocBucket(n, c.output)).passed
                                  /\ ctx' = [c EXCEPT
                                                !.bb = WriteAndPass(c, DocBucket(n, c.output)).bb]
                                  /\ rv' = res
                                  /\ pc' = IF res = APR_SUCCESS THEN "loop" ELSE "error"
    /\ UNCHANGED <<r, inChain, pending, stream, filterVars, writerVars, queryVars>>

\* "EOS means we are done": the last line, then everything buffered and the
\* rest of the brigade go down the chain and the filter removes itself
PassEos ==
    /\ InLoop("eos")
    /\ LET a == add_line(ctx)
           n == Len(lines) + 1
       IN /\ lines' = Append(lines, a.buffer)
          /\ roots' = IF a.comp THEN Append(roots, n) ELSE roots
          /\ \E w \in (IF a.comp THEN WriteResults(a.ctx.output) ELSE {APR_SUCCESS}) :
                 IF w # APR_SUCCESS
                 THEN /\ ctx' = a.ctx
                      /\ rv' = w
                      /\ pc' = "error"
                      /\ UNCHANGED <<bb, inChain, downstream>>
                 ELSE \E res \in PassResults :
                          /\ downstream' =
                                 Append(downstream,
                                        APR_BRIGADE_CONCAT(
                                            IF a.comp THEN Append(a.ctx.bb, DocBucket(n, a.ctx.output))
                                                      ELSE a.ctx.bb,
                                            bb))
                          /\ ctx' = [a.ctx EXCEPT !.bb = <<>>]
                          /\ bb' = <<>>
                          /\ inChain' = FALSE
                          /\ rv' = res
                          /\ pc' = "done"
    /\ UNCHANGED <<r, pending, stream, filterVars, writerVars, queryVars>>

\* the brigade is used up: return rv
Return ==
    /\ pc = "loop" /\ bb = <<>>
    /\ pc' = "idle"
    /\ UNCHANGED <<ctx, r, inChain, pending, bb, rv, downstream, stream, lines, roots, filterVars, writerVars, queryVars>>

Next ==
    \/ CallDisabled
    \/ CallFirst
    \/ CallAgain
    \/ Bypass
    \/ DeleteEmpty
    \/ EatCrlf
    \/ Continuation
    \/ BufferData
    \/ KeepMetadata
    \/ ProcessLine
    \/ PassEos
    \/ Return

Spec == Init /\ [][Next]_vars

(***************************************************************************)
(* ical_write (src/mod_ical.c:2003-2028) on a root component that holds    *)
(* one property.  The serializers are modelled by the calls they make to   *)
(* the underlying writer (libxml2's xmlTextWriter, json-c, the brigade),   *)
(* in order; a text is the sequence of its characters.                     *)
(***************************************************************************)
\* most tokens of a multi-valued property
MaxTokens == 3
\* month numbers of BYMONTH entries are 1..MaxMonth
MaxMonth == 12
\* most calls the underlying writer rejects while one component is written
MaxRejects == 1

Digits == <<"0", "1", "2", "3", "4", "5", "6", "7", "8", "9">>

\* printf("%d") of a number that is not negative
RECURSIVE Dec(_)
Dec(n) == IF n < 10 THEN <<Digits[n + 1]>> ELSE Dec(n \div 10) \o <<Digits[(n % 10) + 1]>>

\* printf("%02d") and printf("%04d")
Dec2(n) == IF n < 10 THEN <<"0">> \o Dec(n) ELSE Dec(n)
Dec4(n) == IF n < 10 THEN <<"0", "0", "0">> \o Dec(n)
           ELSE IF n < 100 THEN <<"0", "0">> \o Dec(n)
           ELSE IF n < 1000 THEN <<"0">> \o Dec(n)
           ELSE Dec(n)

\* struct icaltimetype: the null time has year 0
Time(year, is_date) == [year |-> year, month |-> 1, day |-> 1, is_date |-> is_date]
icaltime_null_time == Time(0, FALSE)
icaltime_is_null_time(tt) == tt.year = 0

\* "%04d-%02d-%02d" and "%04d-%02d-%02dT%02d:%02d:%02d" (midnight)
DateText(tt) == Dec4(tt.year) \o <<"-">> \o Dec2(tt.month) \o <<"-">> \o Dec2(tt.day)
DateTimeText(tt) ==
    DateText(tt) \o <<"T">> \o Dec2(0) \o <<":">> \o Dec2(0) \o <<":">> \o Dec2(0)

\* the digits of n, at least w of them
RECURSIVE DecW(_, _)
DecW(n, w) ==
    IF w <= 1 THEN Dec(n) ELSE IF Len(Dec(n)) >= w THEN Dec(n) ELSE <<"0">> \o DecW(n, w - 1)

RECURSIVE Pow10(_)
Pow10(k) == IF k = 0 THEN 1 ELSE 10 * Pow10(k - 1)

\* the decimal text of n / 10^places with `places` digits after the point
Fixed(n, places) ==
    Dec(n \div Pow10(places)) \o <<".">> \o DecW(n % Pow10(places), places)

\* a decimal text without the zeros at its end, and without the point when
\* nothing follows it
RECURSIVE StripZeros(_)
StripZeros(text) ==
    IF text[Len(text)] = "0" /\ \E k \in 1..Len(text) : text[k] = "."
    THEN StripZeros(SubSeq(text, 1, Len(text) - 1))
    ELSE IF text[Len(text)] = "." THEN SubSeq(text, 1, Len(text) - 1)
    ELSE text

\* printf("%f") of a double that is v units of the seventh decimal place:
\* six digits after the point, rounded to the nearest
FloatText(v) == Fixed((v + 5) \div 10, 6)

\* json_object_new_double: the value is printed with all its digits
DoubleText(v) == StripZeros(Fixed(v, 7))

\* icaldurationtype_as_ical_string for a duration of d days
DurationText(d) == <<"P">> \o Dec(d) \o <<"D">>

\* icalrecurrencetype_weekday: the enumerators by name
ICAL_NO_WEEKDAY      == "ICAL_NO_WEEKDAY"
ICAL_SUNDAY_WEEKDAY  == "ICAL_SUNDAY_WEEKDAY"
ICAL_MONDAY_WEEKDAY  == "ICAL_MONDAY_WEEKDAY"
ICAL_TUESDAY_WEEKDAY == "ICAL_TUESDAY_WEEKDAY"
ICAL_NO_RECURRENCE   == "ICAL_NO_RECURRENCE"
ICAL_DAILY_RECURRENCE == "ICAL_DAILY_RECURRENCE"

icalrecur_weekday_to_string(kind) ==
    CASE kind = ICAL_SUNDAY_WEEKDAY  -> <<"S", "U">>
      [] kind = ICAL_MONDAY_WEEKDAY  -> <<"M", "O">>
      [] kind = ICAL_TUESDAY_WEEKDAY -> <<"T", "U">>
      [] OTHER -> <<"U", "N", "K", "N", "O", "W", "N">>

ICAL_LEAP_MONTH == 4096

\* month & ICAL_LEAP_MONTH and month & ~ICAL_LEAP_MONTH, for a short that is
\* not negative
icalrecurrencetype_month_is_leap(month) ==
    ((month \div ICAL_LEAP_MONTH) % 2) * ICAL_LEAP_MONTH
icalrecurrencetype_month_month(month) ==
    month - icalrecurrencetype_month_is_leap(month)

(***************************************************************************)
(* The values and properties written.                                      *)
(***************************************************************************)
\* a RECUR value; of the BY arrays only by_month has entries (the entries
\* before ICAL_RECURRENCE_ARRAY_MAX)
Recur(until, count, interval, week_start, by_month) ==
    [kind |-> "RECUR", freq |-> ICAL_DAILY_RECURRENCE, until |-> until, count |-> count,
     interval |-> interval, week_start |-> week_start, by_month |-> by_month]

\* a BYMONTH entry as libical stores it
MonthEntry(m, leap) == IF leap THEN m + ICAL_LEAP_MONTH ELSE m

ByMonths ==
    { <<MonthEntry(m, leap)>> : m \in 1..MaxMonth, leap \in BOOLEAN }
    \cup { <<MonthEntry(m, FALSE), MonthEntry(m, TRUE)>> : m \in 1..MaxMonth }

Recurs ==
    { Recur(u, c, i, w, <<>>) :
        u \in {icaltime_null_time, Time(2024, TRUE), Time(2024, FALSE)}, c \in {0, 2}, i \in {1, 2},
        w \in {ICAL_NO_WEEKDAY, ICAL_MONDAY_WEEKDAY, ICAL_TUESDAY_WEEKDAY,
               ICAL_SUNDAY_WEEKDAY} }
    \cup { Recur(icaltime_null_time, 0, 1, ICAL_MONDAY_WEEKDAY, b) : b \in ByMonths }

\* a TRIGGER value: a time, or a duration when the time is null
Triggers ==
    { [kind |-> "TRIGGER", time |-> Time(2024, FALSE), duration |-> 0],
      [kind |-> "TRIGGER", time |-> icaltime_null_time, duration |-> 1] }

\* a PERIOD value: start and end, or start and duration when the end is null
Period(start, end, duration) ==
    [kind |-> "PERIOD", start |-> start, end |-> end, duration |-> duration]

Periods ==
    { Period(Time(2024, FALSE), Time(2025, FALSE), 0),
      Period(Time(2024, TRUE), Time(2025, TRUE), 0),
      Period(Time(2024, FALSE), icaltime_null_time, 1) }

\* a GEO value: two doubles, here multiples of 0.0000001 degrees that are
\* not negative (units of the seventh decimal place)
Geos == { [kind |-> "GEO", lat |-> a, lon |-> b] : a \in {0, 10, 12}, b \in {0, 370000000} }

\* a REQUEST-STATUS value; debug <<>> is the NULL pointer
RequestStatuses ==
    { [kind |-> "REQUEST-STATUS", code |-> <<"2", ".", "0">>, desc |-> <<"O", "K">>,
       debug |-> d] : d \in {<<>>, <<"x">>} }

\* the raw text of a list of tokens: icalvalue_as_ical_string_r of a value
\* that holds a comma separated list
RECURSIVE JoinTokens(_)
JoinTokens(ts) ==
    IF Len(ts) = 0 THEN <<>>
    ELSE IF Len(ts) = 1 THEN ts[1]
    ELSE ts[1] \o <<",">> \o JoinTokens(Tail(ts))

Tokens     == { <<"A">>, <<"B">>, <<"A", "B">> }
TokenLists == UNION { [1..n -> Tokens] : n \in 1..MaxTokens }
Texts      == { [kind |-> "TEXT", str |-> JoinTokens(ts)] : ts \in TokenLists }

\* a property: kind, parameters in order, value
Property(kind, params, value) == [kind |-> kind, params |-> params, value |-> value]
Param(name, value) == [name |-> name, value |-> value]

MultiKinds == {"CATEGORIES", "RESOURCES", "FREEBUSY", "EXDATE", "RDATE"}

Properties ==
    { Property("RRULE", <<>>, v) : v \in Recurs }
    \cup { Property("TRIGGER", p, v) :
             p \in {<<>>, <<Param("RELATED", <<"E", "N", "D">>)>>}, v \in Triggers }
    \cup { Property("DURATION", <<>>, [kind |-> "DURATION", duration |-> 1]) }
    \cup { Property("DTEND", <<>>, [kind |-> "DATE-TIME", time |-> Time(2024, FALSE)]) }
    \cup { Property("SUMMARY", <<>>, [kind |-> "TEXT", str |-> <<"A">>]) }
    \cup { Property("X-PERIOD", <<Param("VALUE", <<"P", "E", "R", "I", "O", "D">>)>>, v) :
             v \in Periods }
    \cup { Property("GEO", <<>>, v) : v \in Geos }
    \cup { Property("REQUEST-STATUS", <<>>, v) : v \in RequestStatuses }
    \cup { Property("DTSTART", <<>>, [kind |-> "DATE", time |-> Time(2024, TRUE)]) }
    \cup { Property("X-FOO", <<>>, [kind |-> "X", str |-> <<"A">>]) }
    \cup { Property(k, <<>>, v) : k \in {"CATEGORIES", "RESOURCES"}, v \in Texts }

\* strlwr of the names libical gives kinds
strlwr(str) ==
    CASE str = "VCALENDAR"  -> "vcalendar"
      [] str = "RRULE"      -> "rrule"
      [] str = "TRIGGER"    -> "trigger"
      [] str = "DURATION"   -> "duration"
      [] str = "DTEND"      -> "dtend"
      [] str = "CATEGORIES" -> "categories"
      [] str = "RESOURCES"  -> "resources"
      [] str = "SUMMARY"    -> "summary"
      [] str = "RELATED"    -> "related"
      [] str = "RECUR"      -> "recur"
      [] str = "DATE-TIME"  -> "date-time"
      [] str = "TEXT"       -> "text"
      [] str = "X-PERIOD"   -> "x-period"
      [] str = "VALUE"      -> "value"
      [] str = "PERIOD"     -> "period"
      [] str = "GEO"        -> "geo"
      [] str = "REQUEST-STATUS" -> "request-status"
      [] str = "DTSTART"    -> "dtstart"
      [] str = "DATE"       -> "date"
      [] str = "X-FOO"      -> "x-foo"
      [] str = "VEVENT"     -> "vevent"
      [] str = "VALARM"     -> "valarm"
      [] OTHER -> str

(***************************************************************************)
(* A call to the underlying writer: which function, the element or key     *)
(* name, the object it adds to (JSON), the type and text of what is        *)
(* written, and whether the serializer tests the call's result before it   *)
(* goes on.                                                                *)
(***************************************************************************)
Call(fn, target, name, type, text, checked) ==
    [fn |-> fn, target |-> target, name |-> name, type |-> type, text |-> text,
     checked |-> checked]

\* the xmlTextWriter calls
StartElement(name)             == Call("StartElement", "writer", name, "open", <<>>, TRUE)
EndElement                     == Call("EndElement", "writer", "", "close", <<>>, TRUE)
WriteFormatElement(name, text) == Call("WriteFormatElement", "writer", name, "element", text, TRUE)
WriteFormatString(text)        == Call("WriteFormatString", "writer", "", "string", text, TRUE)

\* a call whose result is assigned but not tested, or calls of a function
\* whose return value is dropped
Untested(calls) == [i \in DOMAIN calls |-> [calls[i] EXCEPT !.checked = FALSE]]

\* the json-c calls: none of their results is looked at
json_object_array_add(target, type, text) ==
    Call("json_object_array_add", target, "", type, text, FALSE)
json_object_object_add(target, key, type, text) ==
    Call("json_object_object_add", target, key, type, text, FALSE)

\* the comma separated tokens of a raw text, as the while loops of
\* icalvalue_multi_to_json and icalvalue_multi_to_xml cut them
RECURSIVE SplitTokens(_)
SplitTokens(str) ==
    IF \E k \in 1..Len(str) : str[k] = ","
    THEN LET k == CHOOSE p \in 1..Len(str) :
                      str[p] = "," /\ \A q \in 1..(p - 1) : str[q] # ","
         IN <<SubSeq(str, 1, k - 1)>> \o SplitTokens(SubSeq(str, k + 1, Len(str)))
    ELSE <<str>>

icalduration_to_json(element, duration, jarray) ==
    << json_object_array_add(jarray, "string", DurationText(duration)) >>

\* rc is assigned and never tested
icalduration_to_xml(element, duration) ==
    Untested(<< WriteFormatElement(element, DurationText(duration)) >>)

icaltime_to_json(element, tt, jarray) ==
    << json_object_array_add(jarray, "string",
                             IF tt.is_date THEN DateText(tt) ELSE DateTimeText(tt)) >>

icaltime_to_xml(element, tt) ==
    << WriteFormatElement(element, IF tt.is_date THEN DateText(tt) ELSE DateTimeText(tt)) >>

icalrecurrence_bymonth_to_json(element, array) ==
    IF array = <<>> THEN <<>>
    ELSE << json_object_object_add("recur", element, "array", <<>>) >>
         \o [i \in 1..Len(array) |->
               IF icalrecurrencetype_month_is_leap(array[i]) # 0
               THEN json_object_array_add(element, "string",
                        Dec(icalrecurrencetype_month_month(array[i])) \o <<"L">>)
               ELSE json_object_array_add(element, "int",
                        Dec(icalrecurrencetype_month_month(array[i])))]

\* (variant for C20: the leap month is printed with its flag bit)
bymonth_to_xml_raw(element, array) ==
    [i \in 1..Len(array) |->
        IF icalrecurrencetype_month_is_leap(array[i]) # 0
        THEN WriteFormatElement(element, Dec(array[i]) \o <<"L">>)
        ELSE WriteFormatElement(element, Dec(array[i]))]

icalrecurrence_bymonth_to_xml(element, array) ==
    [i \in 1..Len(array) |->
        IF icalrecurrencetype_month_is_leap(array[i]) # 0
        THEN WriteFormatElement(element,
                 Dec(icalrecurrencetype_month_month(array[i])) \o <<"L">>)
        ELSE WriteFormatElement(element, Dec(array[i]))]

\* (variant for C19: only an unset week start is left out)
recurrencetype_to_json_wkst(recur, jarray) ==
    << json_object_array_add(jarray, "object", <<>>) >>
    \o (IF recur.freq = ICAL_NO_RECURRENCE THEN <<>>
        ELSE (IF recur.until.year # 0
              THEN << json_object_object_add("recur", "until", "string",
                          IF recur.until.is_date THEN DateText(recur.until)
                          ELSE DateTimeText(recur.until)) >>
              ELSE <<>>)
          \o (IF recur.count # 0
              THEN << json_object_object_add("recur", "count", "int", Dec(recur.count)) >>
              ELSE <<>>)
          \o (IF recur.interval # 1
              THEN << json_object_object_add("recur", "interval", "int",
                                             Dec(recur.interval)) >>
              ELSE <<>>)
          \o icalrecurrence_bymonth_to_json("bymonth", recur.by_month)
          \o (IF recur.week_start # ICAL_NO_WEEKDAY
              THEN << json_object_object_add("recur", "wkst", "string",
                          icalrecur_weekday_to_string(recur.week_start)) >>
              ELSE <<>>))

icalrecurrencetype_to_json(recur, jarray) ==
    << json_object_array_add(jarray, "object", <<>>) >>
    \o (IF recur.freq = ICAL_NO_RECURRENCE THEN <<>>
        ELSE (IF recur.until.year # 0
              THEN << json_object_object_add("recur", "until", "string",
                          IF recur.until.is_date THEN DateText(recur.until)
                          ELSE DateTimeText(recur.until)) >>
              ELSE <<>>)
          \o (IF recur.count # 0
              THEN << json_object_object_add("recur", "count", "int", Dec(recur.count)) >>
              ELSE <<>>)
          \o (IF recur.interval # 1
              THEN << json_object_object_add("recur", "interval", "int",
                                             Dec(recur.interval)) >>
              ELSE <<>>)
          \o icalrecurrence_bymonth_to_json("bymonth", recur.by_month)
          \o (IF recur.week_start # ICAL_MONDAY_WEEKDAY /\ recur.week_start # ICAL_NO_WEEKDAY
              THEN << json_object_object_add("recur", "wkst", "string",
                          icalrecur_weekday_to_string(recur.week_start)) >>
              ELSE <<>>))

\* the result of writing until is assigned to rc and not tested
icalrecurrencetype_to_xml(recur) ==
    IF recur.freq = ICAL_NO_RECURRENCE THEN <<>>
    ELSE (IF recur.until.year # 0
          THEN Untested(<< WriteFormatElement("until",
                               IF recur.until.is_date THEN DateText(recur.until)
                               ELSE DateTimeText(recur.until)) >>)
          ELSE <<>>)
      \o (IF recur.count # 0 THEN << WriteFormatElement("count", Dec(recur.count)) >>
          ELSE <<>>)
      \o (IF recur.interval # 1 THEN << WriteFormatElement("interval", Dec(recur.interval)) >>
          ELSE <<>>)
      \o icalrecurrence_bymonth_to_xml("bymonth", recur.by_month)
      \o (IF recur.week_start # ICAL_MONDAY_WEEKDAY /\ recur.week_start # ICAL_NO_WEEKDAY
          THEN << WriteFormatElement("wkst", icalrecur_weekday_to_string(recur.week_start)) >>
          ELSE <<>>)

icalvalue_multi_to_json(val, jarray) ==
    LET tokens == SplitTokens(val.str) IN
    [i \in 1..Len(tokens) |-> json_object_array_add(jarray, "string", tokens[i])]

\* rc is tested once, after the loop: it is the result of the last token
icalvalue_multi_to_xml(val) ==
    LET tokens == SplitTokens(val.str) IN
    [i \in 1..Len(tokens) |->
        [WriteFormatElement(strlwr(val.kind), tokens[i]) EXCEPT !.checked = (i = Len(tokens))]]

\* "work out the value type": the lower-cased name of the kind, "unknown"
\* for an X value
ValueElement(val) == IF val.kind = "X" THEN "unknown" ELSE strlwr(val.kind)

\* the value type, then the value; a GEO value is labelled "float", a
\* REQUEST-STATUS value "text"; the parts of a composite value go to a new
\* array jvalue, which is added to jarray last
icalvalue_to_json(val, jarray) ==
    << json_object_array_add(jarray, "string",
          CASE val.kind = "GEO" -> <<"float">>
            [] val.kind = "REQUEST-STATUS" -> <<"text">>
            [] OTHER -> <<ValueElement(val)>>) >>
    \o CASE val.kind = "TEXT"      -> << json_object_array_add(jarray, "string", val.str) >>
         [] val.kind = "X"         -> << json_object_array_add(jarray, "string", val.str) >>
         [] val.kind = "GEO"       ->
                << json_object_array_add("jvalue", "double", DoubleText(val.lat)),
                   json_object_array_add("jvalue", "double", DoubleText(val.lon)),
                   json_object_array_add(jarray, "array", <<>>) >>
         [] val.kind = "REQUEST-STATUS" ->
                << json_object_array_add("jvalue", "string", val.code),
                   json_object_array_add("jvalue", "string", val.desc) >>
                \o (IF val.debug # <<>>
                    THEN << json_object_array_add("jvalue", "string", val.debug) >>
                    ELSE <<>>)
                \o << json_object_array_add(jarray, "array", <<>>) >>
         [] val.kind = "PERIOD"    ->
                icaltime_to_json("start", val.start, "jvalue")
                \o (IF ~icaltime_is_null_time(val.end)
                    THEN icaltime_to_json("end", val.start, "jvalue")
                    ELSE icalduration_to_json("duration", val.duration, "jvalue"))
                \o << json_object_array_add(jarray, "array", <<>>) >>
         [] val.kind = "DATE"      ->
                << json_object_array_add(jarray, "string", DateText(val.time)) >>
         [] val.kind = "DURATION"  ->
                << json_object_array_add(jarray, "string", DurationText(val.duration)) >>
         [] val.kind = "RECUR"     -> icalrecurrencetype_to_json(val, jarray)
         [] val.kind = "TRIGGER"   ->
                IF ~icaltime_is_null_time(val.time)
                THEN icaltime_to_json("time", val.time, jarray)
                ELSE icalduration_to_json("duration", val.duration, jarray)
         [] val.kind = "DATE-TIME" ->
                << json_object_array_add(jarray, "string", DateTimeText(val.time)) >>

\* the element of the value type around the value; after the switch rc, the
\* result of the last call assigned to it, is tested; the return values of
\* icaltime_to_xml and icalduration_to_xml for a trigger are dropped
icalvalue_to_xml(val) ==
    << StartElement(ValueElement(val)) >>
    \o CASE val.kind = "TEXT"      -> << WriteFormatString(val.str) >>
         [] val.kind = "X"         -> << WriteFormatString(val.str) >>
         [] val.kind = "GEO"       ->
                << StartElement("latitude"), WriteFormatString(FloatText(val.lat)),
                   EndElement,
                   StartElement("longitude"), WriteFormatString(FloatText(val.lon)),
                   EndElement >>
         [] val.kind = "REQUEST-STATUS" ->
                << StartElement("code"), WriteFormatString(val.code), EndElement,
                   StartElement("description"), WriteFormatString(val.desc), EndElement >>
                \o (IF val.debug # <<>>
                    THEN << StartElement("data"), WriteFormatString(val.debug), EndElement >>
                    ELSE <<>>)
         [] val.kind = "PERIOD"    ->
                icaltime_to_xml("start", val.start)
                \o (IF ~icaltime_is_null_time(val.end)
                    THEN Untested(icaltime_to_xml("end", val.start))
                    ELSE Untested(icalduration_to_xml("duration", val.duration)))
         [] val.kind = "DATE"      -> << WriteFormatString(DateText(val.time)) >>
         [] val.kind = "DURATION"  -> << WriteFormatString(DurationText(val.duration)) >>
         [] val.kind = "RECUR"     -> icalrecurrencetype_to_xml(val)
         [] val.kind = "TRIGGER"   ->
                IF ~icaltime_is_null_time(val.time)
                THEN Untested(icaltime_to_xml("time", val.time))
                ELSE Untested(icalduration_to_xml("duration", val.duration))
         [] val.kind = "DATE-TIME" -> << WriteFormatString(DateTimeText(val.time)) >>
    \o << EndElement >>

icalparameter_to_json(param, jobject) ==
    << json_object_object_add(jobject, strlwr(param.name), "string", param.value) >>

\* rc is assigned and never tested
icalparameter_to_xml(param) ==
    Untested(<< WriteFormatElement(strlwr(param.name), param.value) >>)

RECURSIVE Concat(_)
Concat(seqs) == IF seqs = <<>> THEN <<>> ELSE seqs[1] \o Concat(Tail(seqs))

\* (variant for C18: a multi-valued property is written like any other)
property_to_json_single(prop, jarray) ==
    << json_object_array_add(jarray, "array", <<>>),
       json_object_array_add("property", "string", <<strlwr(prop.kind)>>),
       json_object_array_add("property", "object", <<>>) >>
    \o Concat([i \in 1..Len(prop.params) |-> icalparameter_to_json(prop.params[i], "parameters")])
    \o icalvalue_to_json(prop.value, "property")

icalproperty_to_json(prop, jarray) ==
    << json_object_array_add(jarray, "array", <<>>),
       json_object_array_add("property", "string", <<strlwr(prop.kind)>>),
       json_object_array_add("property", "object", <<>>) >>
    \o Concat([i \in 1..Len(prop.params) |-> icalparameter_to_json(prop.params[i], "parameters")])
    \o (IF prop.kind \in MultiKinds
        THEN icalvalue_multi_to_json(prop.value, "property")
        ELSE icalvalue_to_json(prop.value, "property"))

icalproperty_to_xml(prop) ==
    << StartElement(strlwr(prop.kind)) >>
    \o (IF prop.params # <<>>
        THEN << StartElement("parameters") >>
             \o Concat([i \in 1..Len(prop.params) |-> icalparameter_to_xml(prop.params[i])])
             \o << EndElement >>
        ELSE <<>>)
    \o (IF prop.kind \in MultiKinds
        THEN icalvalue_multi_to_xml(prop.value)
        ELSE icalvalue_to_xml(prop.value))
    \o << EndElement >>

\* a component: its kind, its properties and its sub-components, in order
Tree(kind, props, comps) == [kind |-> kind, props |-> props, comps |-> comps]

\* a root component without sub-components
Component(props) == Tree("VCALENDAR", props, <<>>)

\* the sub-components a root is written with: none, one, two, and one that
\* has a sub-component of its own
Kids ==
    { <<>>,
      <<Tree("VEVENT", <<>>, <<>>)>>,
      <<Tree("VEVENT", <<>>, <<>>), Tree("VEVENT", <<>>, <<>>)>>,
      <<Tree("VEVENT", <<>>, <<Tree("VALARM", <<>>, <<>>)>>)>> }

\* jcomp, the new array for the sub-components of the component that is
\* written to `array`
JComp(array) ==
    CASE array = "jarray"     -> "components"
      [] array = "components" -> "components.components"
      [] OTHER                -> "components.components.components"

\* name, jprop and jcomp are added to `array`, and every sub-component is
\* written with jcomp as its `array`
RECURSIVE icalcomponent_to_json(_, _)
icalcomponent_to_json(c, array) ==
    << json_object_array_add(array, "string", <<strlwr(c.kind)>>),
       json_object_array_add(array, "array", <<>>) >>
    \o Concat([i \in 1..Len(c.props) |-> icalproperty_to_json(c.props[i], "properties")])
    \o << json_object_array_add(array, "array", <<>>) >>
    \o Concat([i \in 1..Len(c.comps) |-> icalcomponent_to_json(c.comps[i], JComp(array))])

RECURSIVE icalcomponent_to_xml(_)
icalcomponent_to_xml(c) ==
    << StartElement(strlwr(c.kind)) >>
    \o (IF c.props # <<>>
        THEN << StartElement("properties") >>
             \o Concat([i \in 1..Len(c.props) |-> icalproperty_to_xml(c.props[i])])
             \o << EndElement >>
        ELSE <<>>)
    \o (IF c.comps # <<>>
        THEN << StartElement("components") >>
             \o Concat([i \in 1..Len(c.comps) |-> icalcomponent_to_xml(c.comps[i])])
             \o << EndElement >>
        ELSE <<>>)
    \o << EndElement >>

\* the calls of ical_to_xcal before the text of the buffer goes to ctx->bb
ical_to_xcal(c) ==
    << Call("StartDocument", "writer", "", "open", <<>>, TRUE),
       Call("StartElementNS", "writer", "icalendar", "open", <<>>, TRUE) >>
    \o icalcomponent_to_xml(c)
    \o << EndElement, Call("EndDocument", "writer", "", "close", <<>>, TRUE) >>

ical_to_jcal(c) == icalcomponent_to_json(c, "jarray")

\* icalcomponent_as_ical_string_r (libical): the content lines of the
\* component, each ended by CRLF; a property is one line of its name and the
\* text of its value
ContentLine(prop) == <<prop.kind, ":">> \o prop.value.str \o <<"CRLF">>

RECURSIVE icalcomponent_as_ical_string_r(_)
icalcomponent_as_ical_string_r(c) ==
    <<"BEGIN", ":", c.kind, "CRLF">>
    \o Concat([i \in 1..Len(c.props) |-> ContentLine(c.props[i])])
    \o Concat([i \in 1..Len(c.comps) |-> icalcomponent_as_ical_string_r(c.comps[i])])
    \o <<"END", ":", c.kind, "CRLF">>

\* the one apr_brigade_write of ical_to_ical
ical_to_ical(c) ==
    << Call("apr_brigade_write", "bb", "", "text", icalcomponent_as_ical_string_r(c), TRUE) >>

\* the calls ical_write makes for component c when none of them fails
Writes(output, c) ==
    CASE output = AP_ICAL_OUTPUT_ICAL -> ical_to_ical(c)
      [] output = AP_ICAL_OUTPUT_XCAL -> ical_to_xcal(c)
      [] output = AP_ICAL_OUTPUT_JCAL -> ical_to_jcal(c)

(***************************************************************************)
(* ical_write as a process: the calls are made one after the other; the    *)
(* underlying writer accepts a call or rejects it (returns < 0).  A        *)
(* rejected call whose result is tested ends ical_write with APR_EGENERAL; *)
(* after a rejected call whose result is not tested the serializer goes    *)
(* on.  Nothing of a rejected call is in the buffer.                       *)
(***************************************************************************)
WriterInit ==
    /\ ctx = [NewCtx(AP_ICAL_OUTPUT_ICAL) EXCEPT !.parser = icalparser_new]
    /\ r = [headers_out_ct |-> NoHeader, content_type |-> NoHeader,
            accept |-> NoHeader, vary |-> <<>>, args |-> NoHeader]
    /\ inChain = TRUE
    /\ pending = <<>>
    /\ bb = <<>>
    /\ pc = "loop"
    /\ rv = APR_SUCCESS
    /\ downstream = <<>>
    /\ stream = <<>>
    /\ lines = <<>>
    /\ roots = <<>>
    /\ comp = NoComp
    /\ now = 1
    /\ orig = NoComp
    /\ iter = 0
    /\ candidate = 0
    /\ fpc = "idle"
    /\ removed = <<>>
    /\ examined = <<>>
    /\ wprop \in Properties
    /\ wkids \in Kids
    /\ wkids # <<>> => wprop = Property("SUMMARY", <<>>, [kind |-> "TEXT", str |-> <<"A">>])
    /\ wout \in {AP_ICAL_OUTPUT_ICAL, AP_ICAL_OUTPUT_XCAL, AP_ICAL_OUTPUT_JCAL}
    /\ wout = AP_ICAL_OUTPUT_ICAL => wprop.value.kind = "TEXT"
    /\ wlog = <<>>
    /\ wpc = "writing"
    /\ wrv = APR_SUCCESS
    /\ wbb = <<>>
    /\ wdown = <<>>
    /\ QueryIdle

\* the calls of the running ical_write
WCalls == Writes(wout, Tree("VCALENDAR", <<wprop>>, wkids))

Rejects == Cardinality({k \in 1..Len(wlog) : ~wlog[k]})

\* the calls the underlying writer took, in order
RECURSIVE Accepted(_, _)
Accepted(calls, log) ==
    IF log = <<>> THEN <<>>
    ELSE (IF log[1] THEN <<calls[1]>> ELSE <<>>) \o Accepted(Tail(calls), Tail(log))

\* the underlying writer takes the next call
WriteAccepted ==
    /\ wpc = "writing"
    /\ Len(wlog) < Len(WCalls)
    /\ wlog' = Append(wlog, TRUE)
    /\ UNCHANGED <<wprop, wkids, wout, wpc, wrv, wbb, wdown, driverVars, filterVars, queryVars>>

\* the underlying writer rejects the next call: if (rc < 0) return
\* APR_EGENERAL where the result is tested
WriteRejected ==
    /\ wpc = "writing"
    /\ wout # AP_ICAL_OUTPUT_ICAL
    /\ Len(wlog) < Len(WCalls)
    /\ Rejects < MaxRejects
    /\ wlog' = Append(wlog, FALSE)
    /\ IF WCalls[Len(wlog) + 1].checked
       THEN wpc' = "returned" /\ wrv' = APR_EGENERAL
       ELSE UNCHANGED <<wpc, wrv>>
    /\ UNCHANGED <<wprop, wkids, wout, wbb, wdown, driverVars, filterVars, queryVars>>

\* all calls are made: the text of the buffer goes to ctx->bb and ical_write
\* returns APR_SUCCESS
WriteComplete ==
    /\ wpc = "writing"
    /\ Len(wlog) = Len(WCalls)
    /\ wbb' = Accepted(WCalls, wlog)
    /\ wrv' = APR_SUCCESS
    /\ wpc' = "returned"
    /\ UNCHANGED <<wprop, wkids, wout, wlog, wdown, driverVars, filterVars, queryVars>>

\* ical_out_filter after ical_write: rv = ap_pass_brigade(f->next, ctx->bb)
PassDocument ==
    /\ wpc = "returned"
    /\ wrv = APR_SUCCESS
    /\ wdown' = wbb
    /\ wbb' = <<>>
    /\ wpc' = "passed"
    /\ UNCHANGED <<wprop, wkids, wout, wlog, wrv, driverVars, filterVars, queryVars>>

\* ical_out_filter after ical_write: if (rv != APR_SUCCESS) return rv
ReturnError ==
    /\ wpc = "returned"
    /\ wrv # APR_SUCCESS
    /\ wpc' = "failed"
    /\ UNCHANGED <<wprop, wkids, wout, wlog, wrv, wbb, wdown, driverVars, filterVars, queryVars>>

WriterNext ==
    \/ WriteAccepted
    \/ WriteRejected
    \/ WriteComplete
    \/ PassDocument
    \/ ReturnError

WriterSpec == WriterInit /\ [][WriterNext]_vars

(***************************************************************************)
(* ical_query (src/mod_ical.c:1946-2001) as a process: entry, one action   *)
(* per pass of the while loop, return.  r->args is a NUL terminated string:*)
(* a pointer into it is an index, Len + 1 the index of the NUL byte and 0  *)
(* the NULL pointer.                                                       *)
(***************************************************************************)
\* most '&' separated segments of a query string
MaxPairs == 2
\* most passes of the while loop the model follows
MaxPasses == 4

NUL == "NUL"

\* the byte a pointer points at
Deref(str, p) == IF p <= Len(str) THEN str[p] ELSE NUL

\* ap_strchr(s, c): the first c at or after s, NULL when there is none
ap_strchr(str, p, c) ==
    IF \E k \in p..Len(str) : str[k] = c
    THEN CHOOSE k \in p..Len(str) : str[k] = c /\ \A j \in p..(k - 1) : str[j] # c
    ELSE 0

strlen(str, p) == Len(str) - p + 1

\* strncmp(s1, s2, n) = 0 for s1 the string at p and s2 a literal: the first
\* n bytes are compared, up to and including a NUL byte; a negative n
\* converted to size_t is larger than any string
RECURSIVE strncmp_eq(_, _, _, _)
strncmp_eq(str, p, lit, n) ==
    IF n = 0 THEN TRUE
    ELSE IF Deref(str, p) # Deref(lit, 1) THEN FALSE
    ELSE IF Deref(str, p) = NUL THEN TRUE
    ELSE strncmp_eq(str, p + 1, Tail(lit),
                    IF n < 0 THEN n ELSE n - 1)

FilterNames ==
    [none   |-> <<"n", "o", "n", "e">>,
     next   |-> <<"n", "e", "x", "t">>,
     last   |-> <<"l", "a", "s", "t">>,
     future |-> <<"f", "u", "t", "u", "r", "e">>,
     past   |-> <<"p", "a", "s", "t">>]

FormatNames ==
    [none   |-> <<"n", "o", "n", "e">>,
     pretty |-> <<"p", "r", "e", "t", "t", "y">>,
     spaced |-> <<"s", "p", "a", "c", "e", "d">>]

parse_filter(str, arg, len) ==
    IF strncmp_eq(str, arg, FilterNames.none, len) THEN AP_ICAL_FILTER_NONE
    ELSE IF strncmp_eq(str, arg, FilterNames.next, len) THEN AP_ICAL_FILTER_NEXT
    ELSE IF strncmp_eq(str, arg, FilterNames.last, len) THEN AP_ICAL_FILTER_LAST
    ELSE IF strncmp_eq(str, arg, FilterNames.future, len) THEN AP_ICAL_FILTER_FUTURE
    ELSE IF strncmp_eq(str, arg, FilterNames.past, len) THEN AP_ICAL_FILTER_PAST
    ELSE AP_ICAL_FILTER_UNKNOWN

parse_format(str, arg, len) ==
    IF strncmp_eq(str, arg, FormatNames.none, len) THEN AP_ICAL_FORMAT_NONE
    ELSE IF strncmp_eq(str, arg, FormatNames.pretty, len) THEN AP_ICAL_FORMAT_PRETTY
    ELSE IF strncmp_eq(str, arg, FormatNames.spaced, len) THEN AP_ICAL_FORMAT_SPACED
    ELSE AP_ICAL_FORMAT_UNKNOWN

KeyFilter == <<"f", "i", "l", "t", "e", "r">>
KeyFormat == <<"f", "o", "r", "m", "a", "t">>

\* one pass of the while loop over the string str with the slider at p: the
\* session context and the slider after it
QueryBody(c, str, p) ==
    LET key == p
        val == ap_strchr(str, p, "=")
        amp == ap_strchr(str, p, "&")
    IN IF val = 0 THEN [ctx |-> c, slider |-> amp]
       ELSE LET klen   == val - key
                v      == val + 1
                vlen   == IF amp # 0 THEN amp - v ELSE strlen(str, v)
                filter == parse_filter(str, v, vlen)
                format == parse_format(str, v, vlen)
                c1     == IF strncmp_eq(str, key, KeyFilter, klen)
                             /\ filter # AP_ICAL_FILTER_UNKNOWN
                          THEN [c EXCEPT !.filter = filter] ELSE c
                c2     == IF strncmp_eq(str, key, KeyFormat, klen)
                             /\ format # AP_ICAL_FORMAT_UNKNOWN
                          THEN [c1 EXCEPT !.format = format] ELSE c1
            IN [ctx |-> c2, slider |-> IF amp # 0 THEN amp + 1 ELSE 0]

\* the query strings: up to MaxPairs segments joined by '&'; a segment is a
\* key, '=' and a value, or a text without '='
QueryKeys ==
    { KeyFilter, KeyFormat, <<"f">>, <<"f", "i", "l", "t">>, <<>>, <<"x">> }

QueryValues ==
    { FilterNames.none, FilterNames.next, FilterNames.past, FormatNames.pretty,
      <<"n">>, <<"n", "e">>, <<>>, <<"n", "e", "x", "t", "x">>, <<"x">> }

Segments ==
    { k \o <<"=">> \o v : k \in QueryKeys, v \in QueryValues }
    \cup { <<"x">>, KeyFilter }

RECURSIVE JoinSegments(_)
JoinSegments(segs) ==
    IF Len(segs) = 1 THEN segs[1]
    ELSE segs[1] \o <<"&">> \o JoinSegments(Tail(segs))

Queries == { JoinSegments(segs) : segs \in UNION { [1..n -> Segments] : n \in 1..MaxPairs } }

Args(str) == [null |-> FALSE, str |-> str]

\* the per-directory configurations: the defaults and what ICalFilter and
\* ICalFormat set
Confs ==
    { [filter |-> f, format |-> g] :
        f \in {DEFAULT_ICAL_FILTER, AP_ICAL_FILTER_PAST},
        g \in {DEFAULT_ICAL_FORMAT, AP_ICAL_FORMAT_PRETTY} }

QueryInit ==
    /\ ctx = [NewCtx(AP_ICAL_OUTPUT_ICAL) EXCEPT !.parser = icalparser_new]
    /\ \E a \in {NoHeader} \cup { Args(q) : q \in Queries } :
           r = [headers_out_ct |-> NoHeader, content_type |-> NoHeader,
                accept |-> NoHeader, vary |-> <<>>, args |-> a]
    /\ inChain = TRUE
    /\ pending = <<>>
    /\ bb = <<>>
    /\ pc = "loop"
    /\ rv = APR_SUCCESS
    /\ downstream = <<>>
    /\ stream = <<>>
    /\ lines = <<>>
    /\ roots = <<>>
    /\ comp = NoComp
    /\ now = 1
    /\ orig = NoComp
    /\ iter = 0
    /\ candidate = 0
    /\ fpc = "idle"
    /\ removed = <<>>
    /\ examined = <<>>
    /\ WriterIdle
    /\ conf \in Confs
    /\ slider = 0
    /\ passes = 0
    /\ qpc = "entry"

\* const char *slider = f->r->args; ctx->filter = conf->filter;
\* ctx->format = conf->format
QueryEnter ==
    /\ qpc = "entry"
    /\ ctx' = ical_query(ctx, conf, NoHeader)
    /\ slider' = IF r.args.null THEN 0 ELSE 1
    /\ qpc' = "loop"
    /\ UNCHANGED <<r, inChain, pending, bb, pc, rv, downstream, stream, lines, roots,
                   conf, passes, filterVars, writerVars>>

\* while (slider && *slider) { ... }
QueryPass ==
    /\ qpc = "loop"
    /\ slider # 0 /\ Deref(r.args.str, slider) # NUL
    /\ passes < MaxPasses
    /\ ctx' = QueryBody(ctx, r.args.str, slider).ctx
    /\ slider' = QueryBody(ctx, r.args.str, slider).slider
    /\ passes' = passes + 1
    /\ UNCHANGED <<r, inChain, pending, bb, pc, rv, downstream, stream, lines, roots,
                   conf, qpc, filterVars, writerVars>>

\* return APR_SUCCESS
QueryReturn ==
    /\ qpc = "loop"
    /\ ~(slider # 0 /\ Deref(r.args.str, slider) # NUL)
    /\ qpc' = "returned"
    /\ UNCHANGED <<ctx, r, inChain, pending, bb, pc, rv, downstream, stream, lines, roots,
                   conf, slider, passes, filterVars, writerVars>>

QueryNext ==
    \/ QueryEnter
    \/ QueryPass
    \/ QueryReturn

QuerySpec == QueryInit /\ [][QueryNext]_vars

(***************************************************************************)
(* Properties of ical_out_filter, checked under Spec.                      *)
(***************************************************************************)
\* the lines add_line gets when the loop runs over the buckets bs from the
\* state u of the unfolder, up to and including the EOS bucket
RECURSIVE LinesFrom(_, _)
LinesFrom(u, bs) ==
    IF bs = <<>> THEN <<>>
    ELSE CASE IterKind(u, bs[1]) = "eos"  -> <<u.tmp>>
           [] IterKind(u, bs[1]) = "meta" -> LinesFrom(u, Tail(bs))
           [] OTHER ->
                  LET n == Unfolded(u, bs[1]) IN
                  n.line \o LinesFrom([tmp |-> n.tmp, eat_crlf |-> n.eat_crlf,
                                       seen_eol |-> n.seen_eol],
                                      n.rest \o Tail(bs))

\* the response body as one single chunk
SingleChunk(inp) ==
    (IF inp = <<>> THEN <<>> ELSE <<DataBucket(inp)>>) \o <<EosBucket>>

SingleChunkLines(inp) ==
    LinesFrom([tmp |-> <<>>, eat_crlf |-> FALSE, seen_eol |-> FALSE], SingleChunk(inp))

\* the session ran through the filter up to and including the EOS bucket
Transcoded == pc = "done" /\ ctx.parser.created

\* C1: however the body is cut into buckets and brigades, the lines handed
\* to the builder are those handed over when the body is one single chunk.
C1_ChunkingIndependent ==
    Transcoded => lines = SingleChunkLines(DataOf(stream))

\* every bucket handed to the next filter, in order
RECURSIVE Flat(_)
Flat(brigades) == IF brigades = <<>> THEN <<>> ELSE brigades[1] \o Flat(Tail(brigades))

HasKind(brigade, kind) == \E k \in 1..Len(brigade) : brigade[k].kind = kind

DocsIn(brigade) == SelectSeq(brigade, LAMBDA b : b.kind = "doc")

\* the line numbers of the documents handed to the next filter, in order
DocLines(brigades) == [k \in 1..Len(DocsIn(Flat(brigades))) |-> DocsIn(Flat(brigades))[k].data[1]]

\* ical_write failed for the root completed last: the call returned the error
WriteFailed == pc = "error" /\ rv = APR_EGENERAL

RECURSIVE RootLines(_, _, _)
RootLines(parser, ls, k) ==
    IF ls = <<>> THEN <<>>
    ELSE LET res == icalparser_add_line(parser, ls[1]) IN
         (IF res.comp THEN <<k>> ELSE <<>>) \o RootLines(res.parser, Tail(ls), k + 1)

Front(seq) == SubSeq(seq, 1, Len(seq) - 1)

NotCalendar ==
    IF r.headers_out_ct = NoHeader THEN TRUE ELSE r.headers_out_ct.media # "text/calendar"

C10_PassThrough ==
    [][ (ctx.output = AP_ICAL_OUTPUT_NEGOTIATED /\ NotCalendar /\ pending' # pending) =>
            /\ ~inChain'
            /\ ctx' = ctx /\ ctx = NewCtx(AP_ICAL_OUTPUT_NEGOTIATED)
            /\ r' = r /\ r.vary = <<>> /\ r.content_type = r.headers_out_ct
            /\ lines' = <<>> /\ roots' = <<>>
            /\ Flat(downstream') \o pending' = stream
            /\ Len(downstream') = Len(downstream) + 1
            /\ pc' \in {"idle", "error"} ]_vars

\* the whole of a text/html response went past the removed filter
C10_Witness ==
    /\ ctx.output = AP_ICAL_OUTPUT_NEGOTIATED
    /\ r.headers_out_ct = Plain("text/html")
    /\ ~inChain
    /\ pending = <<>>
    /\ Len(downstream) >= 2
    /\ HasKind(Flat(downstream), "data")

\* the output format the client's preference string stands for
Preferred(accept) ==
    IF accept = Plain("text/calendar") THEN AP_ICAL_OUTPUT_ICAL
    ELSE IF accept = Plain("application/calendar+xml") THEN AP_ICAL_OUTPUT_XCAL
    ELSE IF accept = Plain("application/calendar+json") THEN AP_ICAL_OUTPUT_JCAL
    ELSE AP_ICAL_OUTPUT_ICAL

Formats == {AP_ICAL_OUTPUT_ICAL, AP_ICAL_OUTPUT_XCAL, AP_ICAL_OUTPUT_JCAL}

\* C11: the first call of a negotiating filter selects iCal for the
\* preference text/calendar, XML for application/calendar+xml, JSON for
\* application/calendar+json and iCal for no or any other preference; once
\* the parser exists the output format is one of the three and no step
\* changes it.
C11_FormatNegotiation ==
    [][ /\ ctx'.parser.created => ctx'.output \in Formats
        /\ (~ctx.parser.created /\ ctx'.parser.created
                /\ ctx.output = AP_ICAL_OUTPUT_NEGOTIATED) =>
               ctx'.output = Preferred(r.accept)
        /\ ctx.parser.created => ctx'.output = ctx.output ]_vars

\* a negotiated session that wrote a JSON document and came to its end
C11_Witness ==
    /\ pc = "done"
    /\ r.vary = <<"Accept">>
    /\ r.accept = Plain("application/calendar+json")
    /\ ctx.output = AP_ICAL_OUTPUT_JCAL
    /\ DocLines(downstream) # <<>>

\* the content type that names an output format
MediaOf(output) ==
    CASE output = AP_ICAL_OUTPUT_ICAL -> "text/calendar"
      [] output = AP_ICAL_OUTPUT_XCAL -> "application/calendar+xml"
      [] output = AP_ICAL_OUTPUT_JCAL -> "application/calendar+json"
      [] OTHER -> "none"

\* C12: once the transcoder acts on a response (the parser exists), the
\* content type of the response is the one of the selected output format,
\* for each of the four registrations.
C12_ContentTypeHint ==
    ctx.parser.created =>
        IF r.content_type = NoHeader THEN FALSE
        ELSE r.content_type.media = MediaOf(ctx.output)

C14_DefaultIsPast ==
    ctx.parser.created => ctx.filter = AP_ICAL_FILTER_PAST

\* C16: a logical line folded at places inside it reaches the builder as the
\* one line it was before the folding, byte for byte, however the host cuts
\* the folded text into buckets.
C16_FoldRoundTrip ==
    \A f \in Foldings :
        (DataOf(stream) = f.body /\ pc = "done") => lines = <<f.line>>

\* C17 (as claimed): an empty line inside the body, a line break directly
\* followed by another one, reaches the builder as an empty logical line.
HasEmptyLine(body) ==
    \E i \in 2..(Len(body) - 2) :
        /\ ~IsEol(body[i - 1])
        /\ body[i] = APR_ASCII_LF /\ body[i + 1] = APR_ASCII_LF
        /\ ~IsEol(body[i + 2])

WrittenWhole == wpc = "passed" /\ \A k \in 1..Len(wlog) : wlog[k]

Select(calls, Test(_)) ==
    LET F[i \in 0..Len(calls)] ==
            IF i = 0 THEN <<>>
            ELSE IF Test(calls[i]) THEN Append(F[i - 1], calls[i]) ELSE F[i - 1]
    IN F[Len(calls)]

TextsOf(calls) == [i \in 1..Len(calls) |-> calls[i].text]
NamesOf(calls) == {calls[i].name : i \in 1..Len(calls)}

\* C15: when the underlying writer rejects a call, the serializer stops at
\* that call, ical_write returns an error, ical_out_filter returns it and
\* nothing of the document reaches ctx->bb or the next filter.
C15_FailurePropagated ==
    \A k \in 1..Len(wlog) :
        ~wlog[k] =>
            /\ k = Len(wlog)
            /\ wpc \in {"returned", "failed"}
            /\ wrv = APR_EGENERAL
            /\ wbb = <<>> /\ wdown = <<>>

\* the values a document shows for its property: the value elements of the
\* XML document, the array entries after name and parameters of the JSON
\* document, the value of the property's content line of the iCal document
IsXmlValue(c) == c.fn = "WriteFormatString" \/ (c.fn = "WriteFormatElement" /\ c.name = "text")
IsJsonEntry(c) == c.fn = "json_object_array_add" /\ c.target = "property"

RECURSIVE LinesOf(_, _)
LinesOf(text, line) ==
    IF text = <<>> THEN (IF line = <<>> THEN <<>> ELSE <<line>>)
    ELSE IF text[1] = "CRLF" THEN <<line>> \o LinesOf(Tail(text), <<>>)
    ELSE LinesOf(Tail(text), Append(line, text[1]))

IsLineOf(kind, line) == Len(line) >= 2 /\ line[1] = kind /\ line[2] = ":"

RECURSIVE ValuesOfLines(_, _)
ValuesOfLines(ls, kind) ==
    IF ls = <<>> THEN <<>>
    ELSE (IF IsLineOf(kind, ls[1]) THEN <<SubSeq(ls[1], 3, Len(ls[1]))>> ELSE <<>>)
         \o ValuesOfLines(Tail(ls), kind)

Entries(output, doc, kind) ==
    CASE output = AP_ICAL_OUTPUT_XCAL -> TextsOf(Select(doc, IsXmlValue))
      [] output = AP_ICAL_OUTPUT_JCAL ->
             LET es == TextsOf(Select(doc, IsJsonEntry)) IN SubSeq(es, 3, Len(es))
      [] output = AP_ICAL_OUTPUT_ICAL -> ValuesOfLines(LinesOf(doc[1].text, <<>>), kind)

IsWkst(c) == c.name = "wkst"

IsByMonth(c) ==
    \/ c.fn = "WriteFormatElement" /\ c.name = "bymonth"
    \/ c.fn = "json_object_array_add" /\ c.target = "bymonth"

MonthShown(entry) ==
    IF entry >= ICAL_LEAP_MONTH THEN Dec(entry - ICAL_LEAP_MONTH) \o <<"L">> ELSE Dec(entry)

C20_LeapMonth ==
    (WrittenWhole /\ wprop.value.kind = "RECUR"
        /\ wout \in {AP_ICAL_OUTPUT_XCAL, AP_ICAL_OUTPUT_JCAL}) =>
        LET shown == TextsOf(Select(wdown, IsByMonth))
            bm    == wprop.value.by_month
        IN /\ shown = [i \in 1..Len(bm) |-> MonthShown(bm[i])]
           /\ \A i, j \in 1..Len(bm) : bm[i] # bm[j] => shown[i] # shown[j]

\* month 5 and leap month 5 were written as XML: 5 and 5L
C20_Witness ==
    /\ WrittenWhole
    /\ wout = AP_ICAL_OUTPUT_XCAL
    /\ wprop.value.kind = "RECUR"
    /\ wprop.value.by_month = <<MonthEntry(5, FALSE), MonthEntry(5, TRUE)>>
    /\ TextsOf(Select(wdown, IsByMonth)) = << <<"5">>, <<"5", "L">> >>

\* ---------------------------------------------------------------------
\* filter_component: the traversal of the direct children

\* C26: once filter_component has run on a root, in every mode, the children
\* its loop examined are all the direct children the root had on entry, each
\* exactly once, in their left-to-right order.
C26_EachChildExaminedOnce ==
    (fpc = "done" /\ comp # NoComp) =>
        examined = [k \in 1..Len(orig.components) |-> orig.components[k].id]

\* ---------------------------------------------------------------------
\* ical_out_filter at the end of the input

\* the positions of the EOS buckets of a brigade
EosAt(brigade) == { k \in 1..Len(brigade) : brigade[k].kind = "eos" }

EosLast(brigade) == EosAt(brigade) = {Len(brigade)}

\* the step taken when the first bucket of the brigade is the EOS bucket:
\* the pending line goes to the builder and, the write of a completed root
\* having succeeded, ctx->bb, that root's document and the EOS bucket go
\* down in one brigade and the filter leaves the chain
EosStepPasses ==
    /\ lines' = Append(lines, ctx.tmp)
    /\ ~inChain'
    /\ pc' = "done"
    /\ Len(downstream') = Len(downstream) + 1
    /\ SubSeq(downstream', 1, Len(downstream)) = downstream
    /\ LET out == downstream'[Len(downstream')]
           k   == Len(ctx.bb)
       IN /\ EosLast(out)
          /\ SubSeq(out, 1, k) = ctx.bb
          /\ IF roots' # roots
             THEN /\ Len(out) = k + 2
                  /\ out[k + 1] = DocBucket(Len(lines'), ctx.output)
             ELSE Len(out) = k + 1

\* the same step when the write of the root the last line completed failed:
\* the error is returned, nothing goes down, the filter stays in the chain
EosStepFails ==
    /\ lines' = Append(lines, ctx.tmp)
    /\ roots' # roots
    /\ ctx.output # AP_ICAL_OUTPUT_ICAL
    /\ rv' = APR_EGENERAL
    /\ pc' = "error"
    /\ inChain'
    /\ downstream' = downstream

\* C27 (as stated): whenever ical_out_filter meets the EOS bucket it hands
\* the pending line to the builder, writes the root this completes, passes
\* the buffered output followed by the EOS bucket down in one call and leaves
\* the chain.
C27_EndOfInputAlways ==
    [][InLoop("eos") => EosStepPasses]_vars

\* C27 (amended): meeting the EOS bucket, the filter hands the pending line
\* to the builder; if the write of the root this completes fails it returns
\* the error and passes nothing, otherwise it passes the buffered output
\* followed by the EOS bucket down in one call and leaves the chain; the EOS
\* bucket goes down at most once and no bucket follows it.
C27_EndOfInput ==
    [][/\ InLoop("eos") => (EosStepPasses \/ EosStepFails)
       /\ Cardinality(EosAt(Flat(downstream'))) <= 1
       /\ EosAt(Flat(downstream')) \subseteq {Len(Flat(downstream'))}]_vars

\* the input ended in a line without a line break that completed a root: its
\* document went down behind a preserved metadata bucket and before the EOS
C27_Witness ==
    /\ pc = "done" /\ ctx.parser.created
    /\ roots # <<>> /\ roots[Len(roots)] = Len(lines)
    /\ LET out == downstream[Len(downstream)]
       IN /\ Len(out) = 3
          /\ out[1].kind = "meta" /\ out[2].kind = "doc" /\ out[3].kind = "eos"

\* ---------------------------------------------------------------------
\* the unfolder's lines

\* C28: no logical line handed to the builder holds a CR or an LF byte,
\* whatever the input bytes and however they are cut into buckets.
C28_NoLineBreakInLine ==
    \A i \in 1..Len(lines) : \A k \in 1..Len(lines[i]) :
        lines[i][k] \notin {APR_ASCII_CR, APR_ASCII_LF}

(***************************************************************************)
(* Claims about ical_query (QuerySpec).                                    *)
(***************************************************************************)
\* C29: ical_query terminates for every query string: every pass of its
\* while loop leaves the slider NULL or further on in the string than it
\* was, so the loop makes at most as many passes as the string has bytes.
C29_QueryTerminates ==
    [][passes' # passes => (slider' = 0 \/ slider' > slider)]_vars

\* the segment of the query string that starts at p: the index after its
\* last byte, its key and its value when it holds a '='
SegmentEnd(str, p) ==
    IF ap_strchr(str, p, "&") # 0 THEN ap_strchr(str, p, "&") ELSE Len(str) + 1

IsPair(str, p) ==
    ap_strchr(str, p, "=") # 0 /\ ap_strchr(str, p, "=") < SegmentEnd(str, p)

KeyOf(str, p) == SubSeq(str, p, ap_strchr(str, p, "=") - 1)

ValueOf(str, p) == SubSeq(str, ap_strchr(str, p, "=") + 1, SegmentEnd(str, p) - 1)

\* the mode a name stands for, "unknown" when it is none of the names
ModeNamed(names, text) ==
    IF \E m \in DOMAIN names : names[m] = text
    THEN CHOOSE m \in DOMAIN names : names[m] = text
    ELSE "unknown"

\* C30: a pass of the loop over one segment of the query string changes the
\* filter mode only when the segment is the key filter, '=' and one of none,
\* next, last, future, past, and then to that mode; it changes the format
\* mode only when the segment is the key format, '=' and one of none,
\* spaced, pretty; every other segment leaves both modes as they were.
C30_ExactPairsOnly ==
    [][passes' # passes =>
        LET str   == r.args.str
            pair  == IsPair(str, slider)
            fmode == IF pair /\ KeyOf(str, slider) = KeyFilter
                     THEN ModeNamed(FilterNames, ValueOf(str, slider)) ELSE "unknown"
            gmode == IF pair /\ KeyOf(str, slider) = KeyFormat
                     THEN ModeNamed(FormatNames, ValueOf(str, slider)) ELSE "unknown"
        IN /\ ctx'.filter = IF fmode # "unknown" THEN fmode ELSE ctx.filter
           /\ ctx'.format = IF gmode # "unknown" THEN gmode ELSE ctx.format]_vars

(***************************************************************************)
(* Claims about the value, property and component serializers              *)
(* (WriterSpec).                                                           *)
(***************************************************************************)
IsXmlLeaf(c) == c.type \in {"element", "string"}
IsJsonLeaf(c) == c.type \notin {"array", "object"}

\* the field values of a value in the order the XML serializer writes them;
\* the coordinates of a GEO value as numbers, "0.000010" being 0.00001
XmlValues(val) ==
    LET texts == TextsOf(Select(icalvalue_to_xml(val), IsXmlLeaf))
    IN IF val.kind = "GEO" THEN [i \in 1..Len(texts) |-> StripZeros(texts[i])] ELSE texts

\* the field values of a value in the order the JSON serializer adds them,
\* after the name of the value type
JsonValues(val) == TextsOf(Select(Tail(icalvalue_to_json(val, "property")), IsJsonLeaf))

\* C21: the XML and the JSON rendering of the value of a property decompose
\* it into the same fields in the same order with the same field values.
C21_CrossFormatEquivalence ==
    (wprop # NoProp /\ wprop.kind \notin MultiKinds) =>
        XmlValues(wprop.value) = JsonValues(wprop.value)

\* the names of the value types of the JSON output
ValueTypeNames ==
    { <<n>> : n \in {"text", "recur", "duration", "date-time", "date", "period", "float",
                     "trigger", "unknown"} }

\* C23: in the JSON output a property of any kind, the multi-valued kinds
\* included, is an array that starts with the lower-cased kind name, the
\* parameters object and the name of the value type, and holds at least one
\* value after them.
C23_JsonPropertyShape ==
    (wprop # NoProp /\ wout = AP_ICAL_OUTPUT_JCAL) =>
        LET es == Select(WCalls, IsJsonEntry)
        IN /\ Len(es) >= 4
           /\ es[1].type = "string" /\ es[1].text = <<strlwr(wprop.kind)>>
           /\ es[2].type = "object"
           /\ es[3].type = "string" /\ es[3].text \in ValueTypeNames

TimeText(tt) == IF tt.is_date THEN DateText(tt) ELSE DateTimeText(tt)

IsPeriodField(c) ==
    \/ c.fn = "WriteFormatElement" /\ c.name \in {"start", "end", "duration"}
    \/ c.fn = "json_object_array_add" /\ c.target = "jvalue"

\* C24: a PERIOD value is rendered, in XML and in JSON, as its start followed
\* by exactly one of end and duration: the end instant of the period when it
\* is not null, and no duration; otherwise the duration, and no end.
C24_PeriodDecomposition ==
    (wprop # NoProp /\ wprop.value.kind = "PERIOD" /\ wout # AP_ICAL_OUTPUT_ICAL) =>
        LET v  == wprop.value
            fs == Select(WCalls, IsPeriodField)
        IN /\ Len(fs) = 2
           /\ fs[1].text = TimeText(v.start)
           /\ fs[2].text = IF ~icaltime_is_null_time(v.end) THEN TimeText(v.end)
                           ELSE DurationText(v.duration)
           /\ wout = AP_ICAL_OUTPUT_XCAL =>
                  /\ fs[1].name = "start"
                  /\ fs[2].name = IF ~icaltime_is_null_time(v.end) THEN "end" ELSE "duration"

\* C25: the XML or JSON rendering of a RECUR value never holds both an until
\* and a count field.
C25_UntilCountExclusive ==
    (wprop # NoProp /\ wprop.value.kind = "RECUR" /\ wout # AP_ICAL_OUTPUT_ICAL) =>
        LET names == NamesOf(WCalls)
        IN ~("until" \in names /\ "count" \in names)

IsInRootComponents(c) == c.target = JComp("jarray")
IsInKidComponents(c) == c.target = JComp(JComp("jarray"))

\* C22: in the JSON output every component is an array of its own, so the
\* components array of the root holds one element per sub-component, each
\* of them an array, and so does the components array of a sub-component.
C22_JsonComponentShape ==
    (wprop # NoProp /\ wout = AP_ICAL_OUTPUT_JCAL) =>
        LET inRoot == Select(WCalls, IsInRootComponents)
            inKid  == Select(WCalls, IsInKidComponents)
        IN /\ Len(inRoot) = Len(wkids)
           /\ \A i \in 1..Len(inRoot) : inRoot[i].type = "array"
           /\ wkids # <<>> =>
                  /\ Len(inKid) = Len(wkids[Len(wkids)].comps)
                  /\ \A i \in 1..Len(inKid) : inKid[i].type = "array"

====
